---- MODULE Spec2Model ----
(***************************************************************************)
(* Crossbar Array Measurement Tracker: the collaborative synchronisation   *)
(* core, in the two networked variants the repository holds: the hosted    *)
(* store (src/script.js, lines 1-976) and the gossip store                 *)
(* (src/unnamed/part_000).  A deployment runs one variant on every client. *)
(*                                                                         *)
(* Every browser tab is a client holding entries, currentEntry and         *)
(* isUpdating at process scope.  The hosted store is one shared mapping    *)
(* key -> entry; a write travels to it asynchronously (outbox), the store  *)
(* applies writes in arrival order and then delivers the whole collection  *)
(* to every subscribed client (inbox), the writer included.                *)
(*                                                                         *)
(* JavaScript objects are shared by reference: currentEntry may be the     *)
(* very object held in entries (after loadSelectedEntry or after the       *)
(* listener adopted the store's copy).  alias records that sharing, so an  *)
(* in-place mutation of currentEntry shows in entries as well.             *)
(*                                                                         *)
(* A client's own write comes back to it as a notification like any       *)
(* other (the self-echo), after the store applied it; the gossip store     *)
(* delivers one key and value per notification.                            *)
(*                                                                         *)
(* The local-storage script (src/script.js, lines 978-1286) is modelled in *)
(* a scenario of its own (SpecLocal): it has no store, and storage holds   *)
(* the item it writes to the browser's localStorage.                       *)
(*                                                                         *)
(* Left out: the per-cell timestamps array (display only), the DOM other   *)
(* than the number of rendered cells and the selected cell, tooltips, the  *)
(* PNG export and the                                                      *)
(* gossip script's localStorage backup, which is read only at start-up.    *)
(***************************************************************************)
EXTENDS Integers, Sequences, FiniteSets, TLC

(* ------------------------------ bounds --------------------------------- *)

\* Total number of user-initiated handlers that run to completion in one
\* behaviour (a handler that returns early is not counted).
MaxOps == 2

\* The deployments.
Variants == {"firebase", "gun"}

\* The browser tabs.
Clients == {"A", "B"}

\* Values offered by the arraySize selector (stand-ins for 8 and 128).
ArraySizes == {1, 2}

\* Texts typed into the entryName field, as sequences of characters.
NameInputs == { <<" ">>, <<"w">>, <<"a", ".">> }

\* Files offered to the import dialog, as the documents JSON.parse yields:
\* a faithful export, a document whose raw array is shorter than size * size
\* and holds a value that is no state, one without measurements.raw, and a
\* file that is not JSON.
ImportDocs ==
    { [name |-> <<"w">>, size |-> 1, createdAt |-> 0, measurements |-> [raw |-> <<2>>]],
      [name |-> <<"w">>, size |-> 2, measurements |-> [raw |-> <<7>>]],
      [name |-> <<"w">>, size |-> 1, measurements |-> [grid |-> <<>>]],
      [parseError |-> TRUE] }

(* --------------------------- JavaScript values -------------------------- *)

\* null as the selected cell (src/script.js:33).
NoCell == 0 - 1

\* null / undefined as an entry reference.
Null == [null |-> TRUE]

\* NaN, the result of undefined + 1 (src/script.js:325 on a missing slot).
NaN == 0 - 1

\* An empty array slot (reads as undefined).
Hole == 0 - 2

\* null as an array element, which JSON.parse yields for the text null.
JsonNull == 0 - 3

\* The element standing for a value that is no array.
NotArray == 0 - 4

\* A measurements value that is a number, as importFromJSON takes it from a
\* file whose raw is a number (src/script.js:767 tests raw for truthiness
\* only).  It has no length, no elements and no filter method.
Scalar == <<NotArray>>

\* Array.isArray(m), for the values an entry's measurements can hold.
IsArray(m) == m # Scalar

\* JSON.stringify of one array element: NaN, holes and null all print as null.
StringifyCell(v) == IF v \in {NaN, Hole, JsonNull} THEN "null" ELSE ToString(v)

\* The element JSON.parse reads back from what JSON.stringify printed.
JsonValue(v) == IF v \in {NaN, Hole, JsonNull} THEN JsonNull ELSE v

\* JSON.stringify(measurements), the text compared at src/script.js:122.
Stringify(arr) == [k \in 1..Len(arr) |-> StringifyCell(arr[k])]

\* Array(n).fill(v)
ArrayFill(n, v) == [k \in 1..n |-> v]

\* arr[i] for a 0-based index; a slot past the end or a hole reads undefined.
ArrayGet(arr, i) == IF i < Len(arr) THEN arr[i + 1] ELSE Hole

\* arr[i] = v for a 0-based index; writing past the end grows the array.
ArraySet(arr, i, v) ==
    IF i < Len(arr) THEN [arr EXCEPT ![i + 1] = v]
    ELSE arr \o ArrayFill(i - Len(arr), Hole) \o <<v>>

\* A cycle over three states only: the last state is never reached.
NextStateOfThree(v) ==
    IF v = NaN \/ v = Hole THEN NaN ELSE IF v = JsonNull THEN 1 ELSE (v + 1) % 3

\* (state + 1) % 4 as JavaScript computes it (src/script.js:325): undefined
\* and NaN give NaN, null counts as 0.
NextState(v) ==
    IF v = NaN \/ v = Hole THEN NaN ELSE IF v = JsonNull THEN 1 ELSE (v + 1) % 4

(* ------------------------------- names ---------------------------------- *)

RECURSIVE TrimLeft(_)
TrimLeft(s) == IF s # <<>> /\ Head(s) = " " THEN TrimLeft(Tail(s)) ELSE s

RECURSIVE TrimRight(_)
TrimRight(s) ==
    IF s # <<>> /\ s[Len(s)] = " " THEN TrimRight(SubSeq(s, 1, Len(s) - 1)) ELSE s

\* String.prototype.trim (src/script.js:184)
Trim(s) == TrimRight(TrimLeft(s))

\* The characters [^a-zA-Z0-9-_] leaves alone, as far as the inputs use them.
KeyChars == {"a", "w", "Z", "9", "-", "_"}

\* key.replace(/[^a-zA-Z0-9-_]/g, '_') (src/unnamed/part_000:119-121)
sanitizeKey(key) ==
    [k \in 1..Len(key) |-> IF key[k] \in KeyChars THEN key[k] ELSE "_"]

\* Characters the hosted store forbids in a key: the class [.#$[\]].
ProhibitedChars == {".", "#", "$", "[", "]"}

\* A replace without the g flag: only the first match is replaced.
SanitizeNameFirstOnly(name) ==
    [k \in 1..Len(name) |->
        IF name[k] \in ProhibitedChars
              /\ \A j \in 1..(k - 1) : name[j] \notin ProhibitedChars
        THEN "_" ELSE name[k]]

\* entry.name.replace(/[.#$[\]]/g, '_') (src/script.js:158 and :172)
SanitizeName(name) ==
    [k \in 1..Len(name) |-> IF name[k] \in ProhibitedChars THEN "_" ELSE name[k]]

\* Every key the name inputs can produce, in the store's key order.
AllKeys == << <<"a", "_">>, <<"w">> >>

Keys == {AllKeys[k] : k \in 1..Len(AllKeys)}

(* ------------------------------ variables ------------------------------- *)

VARIABLES
    variant,       \* which script every client runs
    remote,        \* the store: key -> entry or Null
    outbox,        \* per client: writes issued and not yet applied by the store
    inbox,         \* per client: change notifications not yet delivered
    entriesRef,    \* per client: whether initializeFirebase set entriesRef
    entries,       \* per client: the entries array
    currentEntry,  \* per client: the loaded entry or Null
    alias,         \* per client: index in entries of the object currentEntry is, or 0
    gridCells,     \* per client: number of cell elements renderGrid created
    selector,      \* per client: the names listed by the entrySelector dropdown
    isUpdating,    \* per client: the re-entrancy flag
    putCalls,      \* per client: number of set() calls issued
    cellCycles,    \* per client: number of cell mutations performed by handleCellClick
    otherWrites,   \* per client: number of accepted create / clear-all / import
    lastOp,        \* the user handler the last step ran, if it was one
    streak,        \* the run of consecutive cycles of one cell the last steps made
    edit,          \* per client: its latest cell cycle, if no other handler of it followed
    lastWriter,    \* the client whose write the store applied last
    connected,     \* per client: what the connection-status indicator shows
    downloads,     \* per client: the files exportCurrentEntry handed to the browser
    origin,        \* per client: the exported file the active entry was imported from
    storage,       \* per client: the crossbarEntries item of localStorage, or Null
    selectedCellIndex, \* per client: the cell the keyboard acts on, or NoCell
    now            \* the clock read by new Date(): one tick per completed handler

vars == <<variant, remote, outbox, inbox, entriesRef, entries, currentEntry, alias,
          gridCells, selector, isUpdating, putCalls, cellCycles, otherWrites, lastOp, streak, edit,
          lastWriter, connected, downloads, origin, storage, selectedCellIndex, now>>

(* ------------------------------- helpers -------------------------------- *)

\* entries.findIndex(e => e.name === name) + 1, or 0 when there is none.
FindIndex(seq, name) ==
    IF \E k \in 1..Len(seq) : seq[k].name = name
    THEN CHOOSE k \in 1..Len(seq) :
            /\ seq[k].name = name
            /\ \A j \in 1..(k - 1) : seq[j].name # name
    ELSE 0

\* entries.find(e => e.name === name) is truthy
HasName(seq, name) == FindIndex(seq, name) # 0

\* data ? Object.values(data) : []   (src/script.js:116)
ObjectValues(data) ==
    SelectSeq([k \in 1..Len(AllKeys) |-> data[AllKeys[k]]], LAMBDA e : e # Null)

\* The instant new Date() returns inside the handler now running.
Today == now + 1

\* saveEntry's guard (src/script.js:153): the write is skipped when true.
SaveSkipped(c) == isUpdating[c] \/ ~entriesRef[c]

\* The option values updateEntrySelector writes (src/script.js:372-394).
NamesOf(seq) == [k \in 1..Len(seq) |-> seq[k].name]

\* entries.filter(e => e.name !== name)
FilterOut(seq, name) == SelectSeq(seq, LAMBDA e : e.name # name)

\* The write saveEntry(entry) hands to the store (src/script.js:155-159).
PutOf(entry) ==
    [key |-> SanitizeName(entry.name),
     value |-> [entry EXCEPT !.lastModified = Today]]

\* A removal addressed by the entry's name as typed, not by its key.
RemoveOfUnsanitized(name) == [key |-> name, value |-> Null]

\* The write deleteEntry(name) hands to the store (src/script.js:172-173).
RemoveOf(name) == [key |-> SanitizeName(name), value |-> Null]

\* The client's queue of writes after saveEntry(entry).
OutboxAfterSave(c, entry) ==
    IF SaveSkipped(c) THEN outbox[c] ELSE Append(outbox[c], PutOf(entry))

\* The entry object after saveEntry(entry) ran on it (lastModified, line 155).
EntryAfterSave(c, entry) ==
    IF SaveSkipped(c) THEN entry ELSE [entry EXCEPT !.lastModified = Today]

\* Number of set() calls after saveEntry.
PutCallsAfterSave(c) == IF SaveSkipped(c) THEN putCalls[c] ELSE putCalls[c] + 1

\* The entries array after currentEntry's object was mutated in place.
EntriesAfterMutation(c, entry) ==
    IF alias[c] = 0 THEN entries[c] ELSE [entries[c] EXCEPT ![alias[c]] = entry]

Quiescent ==
    \A c \in Clients : outbox[c] = <<>> /\ inbox[c] = <<>>

\* lastOp after a step of the store, which is no user handler.
NoOp == [op |-> "none", client |-> "none", ok |-> FALSE, index |-> 0 - 1, why |-> ""]

\* The client made no cell cycle, or another handler of it ran since.
NoEdit == [index |-> 0 - 1, name |-> <<>>, before |-> <<>>]

\* No run of cycles is under way.
NoStreak == [start |-> 0, count |-> 0]

\* An entry measured in an earlier session: every state occurs in it.
SharedEntry ==
    [name |-> <<"w">>, size |-> 2, createdAt |-> 0, lastModified |-> 0,
     measurements |-> <<0, 1, 2, 3>>]

\* A second entry of an earlier session, stored under the key a_.
OtherEntry ==
    [name |-> <<"a", ".">>, size |-> 1, createdAt |-> 0, lastModified |-> 0,
     measurements |-> <<2>>]

(* -------------------------------- Init ---------------------------------- *)

\* A deployment just started on an empty store.
InitFresh ==
    /\ remote = [k \in Keys |-> Null]
    /\ entries = [c \in Clients |-> <<>>]
    /\ currentEntry = [c \in Clients |-> Null]
    /\ alias = [c \in Clients |-> 0]
    /\ gridCells = [c \in Clients |-> 0]
    /\ selector = [c \in Clients |-> <<>>]

\* The store holds OtherEntry and SharedEntry; every client received them
\* and loaded SharedEntry through loadSelectedEntry.
InitShared ==
    /\ remote = [k \in Keys |-> IF k = <<"w">> THEN SharedEntry ELSE OtherEntry]
    /\ entries = [c \in Clients |-> <<OtherEntry, SharedEntry>>]
    /\ currentEntry = [c \in Clients |-> SharedEntry]
    /\ alias = [c \in Clients |-> 2]
    /\ gridCells = [c \in Clients |-> 4]
    /\ selector = [c \in Clients |-> << <<"a", ".">>, <<"w">> >>]

InitRest ==
    /\ variant \in Variants
    /\ outbox = [c \in Clients |-> <<>>]
    /\ inbox = [c \in Clients |-> <<>>]
    /\ entriesRef = [c \in Clients |-> TRUE]
    /\ isUpdating = [c \in Clients |-> FALSE]
    /\ putCalls = [c \in Clients |-> 0]
    /\ cellCycles = [c \in Clients |-> 0]
    /\ otherWrites = [c \in Clients |-> 0]
    /\ lastOp = NoOp
    /\ streak = NoStreak
    /\ edit = [c \in Clients |-> NoEdit]
    /\ lastWriter = "none"
    /\ connected = [c \in Clients |-> TRUE]
    /\ downloads = [c \in Clients |-> <<>>]
    /\ origin = [c \in Clients |-> Null]
    /\ storage = [c \in Clients |-> Null]
    /\ selectedCellIndex = [c \in Clients |-> NoCell]
    /\ now = 0

Init == InitFresh /\ InitRest

\* A deployment in use: both clients show the shared entry.
InitLoaded == InitShared /\ InitRest

(* ---------------------------- user handlers ----------------------------- *)

\* A handler that returned early: only the record of it moves.
Rejected(c, op, why) ==
    /\ lastOp' = [op |-> op, client |-> c, ok |-> FALSE, index |-> 0 - 1, why |-> why]
    /\ streak' = NoStreak
    /\ UNCHANGED <<variant, remote, outbox, inbox, entriesRef, entries, currentEntry,
                   alias, gridCells, selector, isUpdating, putCalls, cellCycles,
                   otherWrites, edit, lastWriter, connected, downloads, origin, now, storage, selectedCellIndex>>

\* selectedCellIndex after a handler: renderGrid, which loadEntry calls in
\* a create, a load and an import of the hosted-store script, clears the
\* selection (src/script.js:255 and :308).
SelectionAfter(c, op) ==
    IF variant = "firebase" /\ op \in {"create", "load", "import"}
    THEN [selectedCellIndex EXCEPT ![c] = NoCell]
    ELSE selectedCellIndex

\* A handler other than a cell cycle that ran to its end.
Finished(c, op) ==
    /\ lastOp' = [op |-> op, client |-> c, ok |-> TRUE, index |-> 0 - 1, why |-> ""]
    /\ streak' = NoStreak
    /\ edit' = [edit EXCEPT ![c] = NoEdit]
    /\ now' = now + 1
    /\ selectedCellIndex' = SelectionAfter(c, op)
    /\ UNCHANGED <<variant, lastWriter, connected, storage>>

\* Such a handler that neither reads nor writes a file.
Completed(c, op) ==
    /\ Finished(c, op)
    /\ UNCHANGED <<downloads, origin>>

\* A cell cycle that ran to its end on the entry that was cur: it extends
\* the run of cycles when the step before it cycled the same cell of the
\* same client.
Cycled(c, index, cur) ==
    /\ lastOp' = [op |-> "click", client |-> c, ok |-> TRUE, index |-> index, why |-> ""]
    /\ streak' = IF lastOp.op = "click" /\ lastOp.ok /\ lastOp.client = c
                     /\ lastOp.index = index
                  THEN [streak EXCEPT !.count = @ + 1]
                  ELSE [start |-> ArrayGet(cur.measurements, index), count |-> 1]
    /\ edit' = [edit EXCEPT ![c] = [index |-> index, name |-> cur.name,
                                     before |-> cur.measurements]]
    /\ now' = now + 1
    /\ UNCHANGED <<variant, lastWriter, connected, downloads, origin, storage, selectedCellIndex>>

\* The object createNewEntry builds (src/script.js:197-204).
NewEntry(name, size) ==
    [name |-> name, size |-> size, createdAt |-> Today, lastModified |-> Today,
     measurements |-> ArrayFill(size * size, 0)]

\* A cell cycle that rebuilds the entry: createdAt is stamped anew.
CycledEntryRebuilt(cur, index) ==
    [cur EXCEPT
        !.measurements = ArraySet(cur.measurements, index,
                             NextState(ArrayGet(cur.measurements, index))),
        !.createdAt = Today,
        !.lastModified = Today]

\* currentEntry's object after handleCellClick mutated it (src/script.js:325-326).
CycledEntry(cur, index) ==
    [cur EXCEPT
        !.measurements = ArraySet(cur.measurements, index,
                             NextState(ArrayGet(cur.measurements, index))),
        !.lastModified = Today]

\* A clear-all that starts the entry over: it stamps createdAt as well.
ClearedEntryRestamped(cur) ==
    [cur EXCEPT !.measurements = ArrayFill(cur.size * cur.size, 0),
                !.createdAt = Today,
                !.lastModified = Today]

\* currentEntry's object after clearAllMeasurements (src/script.js:464-465).
ClearedEntry(cur) ==
    [cur EXCEPT !.measurements = ArrayFill(cur.size * cur.size, 0),
                !.lastModified = Today]

(* -------------------- hosted-store script (script.js) ------------------- *)

\* createNewEntry without the test for an entry of the same name.
createNewEntryUnchecked(c, rawName, size) ==
    LET name == Trim(rawName) IN
    IF name = <<>>
    THEN Rejected(c, "create", "empty")
    ELSE LET entry == NewEntry(name, size) IN
         /\ outbox' = [outbox EXCEPT ![c] = OutboxAfterSave(c, entry)]
         /\ putCalls' = [putCalls EXCEPT ![c] = PutCallsAfterSave(c)]
         /\ otherWrites' = [otherWrites EXCEPT ![c] = @ + 1]
         /\ currentEntry' = [currentEntry EXCEPT ![c] = EntryAfterSave(c, entry)]
         /\ alias' = [alias EXCEPT ![c] = 0]
         /\ gridCells' = [gridCells EXCEPT ![c] = size * size]
         /\ Completed(c, "create")
         /\ UNCHANGED <<remote, inbox, entriesRef, entries, selector, isUpdating,
                        cellCycles>>

\* createNewEntry (src/script.js:183-210)
createNewEntry(c, rawName, size) ==
    LET name == Trim(rawName) IN
    IF name = <<>>
    THEN Rejected(c, "create", "empty")
    ELSE IF HasName(entries[c], name)
    THEN Rejected(c, "create", "duplicate")
    ELSE LET entry == NewEntry(name, size) IN
         /\ outbox' = [outbox EXCEPT ![c] = OutboxAfterSave(c, entry)]
         /\ putCalls' = [putCalls EXCEPT ![c] = PutCallsAfterSave(c)]
         /\ otherWrites' = [otherWrites EXCEPT ![c] = @ + 1]
         /\ currentEntry' = [currentEntry EXCEPT ![c] = EntryAfterSave(c, entry)]
         /\ alias' = [alias EXCEPT ![c] = 0]
         /\ gridCells' = [gridCells EXCEPT ![c] = size * size]
         /\ Completed(c, "create")
         /\ UNCHANGED <<remote, inbox, entriesRef, entries, selector, isUpdating,
                        cellCycles>>

\* loadSelectedEntry (src/script.js:212-225) with loadEntry and renderGrid;
\* k is the selected option.
loadSelectedEntry(c, k) ==
    /\ k \in 1..Len(selector[c])
    /\ LET idx == FindIndex(entries[c], selector[c][k]) IN
       IF idx = 0
       THEN Rejected(c, "load", "missing")
       ELSE /\ currentEntry' = [currentEntry EXCEPT ![c] = entries[c][idx]]
            /\ alias' = [alias EXCEPT ![c] = idx]
            /\ gridCells' = [gridCells EXCEPT ![c] =
                                entries[c][idx].size * entries[c][idx].size]
            /\ Completed(c, "load")
            /\ UNCHANGED <<remote, outbox, inbox, entriesRef, entries, selector,
                           isUpdating, putCalls, cellCycles, otherWrites>>

\* A cell cycle that waits for the store: it returns early while the store
\* is not initialised or the client is disconnected.
handleCellClickOnline(c, index) ==
    /\ currentEntry[c] # Null
    /\ index \in 0..(gridCells[c] - 1)
    /\ IF isUpdating[c] \/ ~entriesRef[c] \/ ~connected[c]
       THEN Rejected(c, "click", "updating")
       ELSE LET cur == currentEntry[c]
                mutated == CycledEntry(cur, index)
                saved == EntryAfterSave(c, mutated) IN
            /\ currentEntry' = [currentEntry EXCEPT ![c] = saved]
            /\ entries' = [entries EXCEPT ![c] = EntriesAfterMutation(c, saved)]
            /\ outbox' = [outbox EXCEPT ![c] = OutboxAfterSave(c, mutated)]
            /\ putCalls' = [putCalls EXCEPT ![c] = PutCallsAfterSave(c)]
            /\ cellCycles' = [cellCycles EXCEPT ![c] = @ + 1]
            /\ Cycled(c, index, cur)
            /\ UNCHANGED <<remote, inbox, entriesRef, alias, gridCells, selector,
                           isUpdating, otherWrites>>

\* handleCellClick on measurements that is a number: the assignment to an
\* element of a number is dropped (line 325), lastModified is set (326) and
\* updateStatistics throws (338) before saveEntry.
ThrewInClick(c, index) ==
    LET stamped == [currentEntry[c] EXCEPT !.lastModified = Today] IN
    /\ currentEntry' = [currentEntry EXCEPT ![c] = stamped]
    /\ entries' = [entries EXCEPT ![c] = EntriesAfterMutation(c, stamped)]
    /\ lastOp' = [op |-> "click", client |-> c, ok |-> FALSE, index |-> index,
                  why |-> "threw"]
    /\ streak' = NoStreak
    /\ edit' = [edit EXCEPT ![c] = NoEdit]
    /\ now' = now + 1
    /\ UNCHANGED <<variant, remote, outbox, inbox, entriesRef, alias, gridCells,
                   selector, isUpdating, putCalls, cellCycles, otherWrites,
                   lastWriter, connected, downloads, origin, storage, selectedCellIndex>>

\* handleCellClick (src/script.js:322-339); index is a rendered cell
handleCellClick(c, index) ==
    /\ currentEntry[c] # Null
    /\ index \in 0..(gridCells[c] - 1)
    /\ IF isUpdating[c]
       THEN Rejected(c, "click", "updating")
       ELSE IF ~IsArray(currentEntry[c].measurements)
       THEN ThrewInClick(c, index)
       ELSE LET cur == currentEntry[c]
                mutated == CycledEntry(cur, index)
                saved == EntryAfterSave(c, mutated) IN
            /\ currentEntry' = [currentEntry EXCEPT ![c] = saved]
            /\ entries' = [entries EXCEPT ![c] = EntriesAfterMutation(c, saved)]
            /\ outbox' = [outbox EXCEPT ![c] = OutboxAfterSave(c, mutated)]
            /\ putCalls' = [putCalls EXCEPT ![c] = PutCallsAfterSave(c)]
            /\ cellCycles' = [cellCycles EXCEPT ![c] = @ + 1]
            /\ Cycled(c, index, cur)
            /\ UNCHANGED <<remote, inbox, entriesRef, alias, gridCells, selector,
                           isUpdating, otherWrites>>

\* deleteSelectedEntry (src/script.js:227-246) with deleteEntry (169-181);
\* k is the selected option, 0 when the selector shows "No entries yet".
deleteSelectedEntry(c, k, confirmed) ==
    /\ IF selector[c] = <<>> THEN k = 0 ELSE k \in 1..Len(selector[c])
    /\ IF k = 0
       THEN Rejected(c, "delete", "empty")
       ELSE IF ~confirmed
       THEN Rejected(c, "delete", "unconfirmed")
       ELSE LET selectedName == selector[c][k] IN
            /\ outbox' = [outbox EXCEPT ![c] =
                   IF entriesRef[c] THEN Append(@, RemoveOf(selectedName)) ELSE @]
            /\ IF currentEntry[c] # Null /\ currentEntry[c].name = selectedName
               THEN /\ currentEntry' = [currentEntry EXCEPT ![c] = Null]
                    /\ alias' = [alias EXCEPT ![c] = 0]
               ELSE UNCHANGED <<currentEntry, alias>>
            /\ Completed(c, "delete")
            /\ UNCHANGED <<remote, inbox, entriesRef, entries, gridCells, selector,
                           isUpdating, putCalls, cellCycles, otherWrites>>

\* clearAllMeasurements (src/script.js:457-470)
clearAllMeasurements(c, confirmed) ==
    IF currentEntry[c] = Null
    THEN Rejected(c, "clear", "empty")
    ELSE IF ~confirmed
    THEN Rejected(c, "clear", "unconfirmed")
    ELSE LET cleared == ClearedEntry(currentEntry[c])
             saved == EntryAfterSave(c, cleared) IN
         /\ currentEntry' = [currentEntry EXCEPT ![c] = saved]
         /\ entries' = [entries EXCEPT ![c] = EntriesAfterMutation(c, saved)]
         /\ outbox' = [outbox EXCEPT ![c] = OutboxAfterSave(c, cleared)]
         /\ putCalls' = [putCalls EXCEPT ![c] = PutCallsAfterSave(c)]
         /\ otherWrites' = [otherWrites EXCEPT ![c] = @ + 1]
         /\ Completed(c, "clear")
         /\ UNCHANGED <<remote, inbox, entriesRef, alias, gridCells, selector,
                        isUpdating, cellCycles>>

\* The test of src/script.js:767 on a parsed document: a field is missing or falsy.
InvalidFormat(doc) ==
    \/ "name" \notin DOMAIN doc
    \/ doc.name = <<>>
    \/ "size" \notin DOMAIN doc
    \/ doc.size = 0
    \/ "measurements" \notin DOMAIN doc
    \/ "raw" \notin DOMAIN doc.measurements

\* An import that takes the document's name and size and starts from
\* unmeasured cells.
ImportedEntryZeroed(doc) ==
    [name |-> doc.name, size |-> doc.size,
     createdAt |-> IF "createdAt" \in DOMAIN doc THEN doc.createdAt ELSE Today,
     lastModified |-> Today,
     measurements |-> ArrayFill(doc.size * doc.size, 0)]

\* The object importFromJSON builds from a valid document (src/script.js:772-778).
ImportedEntry(doc) ==
    [name |-> doc.name, size |-> doc.size,
     createdAt |-> IF "createdAt" \in DOMAIN doc THEN doc.createdAt ELSE Today,
     lastModified |-> Today,
     measurements |-> doc.measurements.raw]

\* An import that drops the active entry before it looks at the file.
importFromJSONResetting(c, doc, confirmed) ==
    IF "parseError" \in DOMAIN doc \/ InvalidFormat(doc)
    THEN /\ currentEntry' = [currentEntry EXCEPT ![c] = Null]
         /\ alias' = [alias EXCEPT ![c] = 0]
         /\ lastOp' = [op |-> "import", client |-> c, ok |-> FALSE, index |-> 0 - 1,
                       why |-> "invalid"]
         /\ streak' = NoStreak
         /\ UNCHANGED <<variant, remote, outbox, inbox, entriesRef, entries, gridCells,
                        selector, isUpdating, putCalls, cellCycles, otherWrites, edit,
                        lastWriter, connected, downloads, origin, now, storage, selectedCellIndex>>
    ELSE IF HasName(entries[c], doc.name) /\ ~confirmed
    THEN Rejected(c, "import", "unconfirmed")
    ELSE LET entry == ImportedEntry(doc) IN
         /\ outbox' = [outbox EXCEPT ![c] = OutboxAfterSave(c, entry)]
         /\ putCalls' = [putCalls EXCEPT ![c] = PutCallsAfterSave(c)]
         /\ otherWrites' = [otherWrites EXCEPT ![c] = @ + 1]
         /\ currentEntry' = [currentEntry EXCEPT ![c] = EntryAfterSave(c, entry)]
         /\ alias' = [alias EXCEPT ![c] = 0]
         /\ gridCells' = [gridCells EXCEPT ![c] = entry.size * entry.size]
         /\ origin' = [origin EXCEPT ![c] = doc]
         /\ Finished(c, "import")
         /\ UNCHANGED <<remote, inbox, entriesRef, entries, selector, isUpdating,
                        cellCycles, downloads>>

\* An import that overwrites without asking.
importFromJSONUngated(c, doc, confirmed) ==
    IF "parseError" \in DOMAIN doc
    THEN Rejected(c, "import", "unparsable")
    ELSE IF InvalidFormat(doc)
    THEN Rejected(c, "import", "invalid")
    ELSE LET entry == ImportedEntry(doc) IN
         /\ outbox' = [outbox EXCEPT ![c] = OutboxAfterSave(c, entry)]
         /\ putCalls' = [putCalls EXCEPT ![c] = PutCallsAfterSave(c)]
         /\ otherWrites' = [otherWrites EXCEPT ![c] = @ + 1]
         /\ currentEntry' = [currentEntry EXCEPT ![c] = EntryAfterSave(c, entry)]
         /\ alias' = [alias EXCEPT ![c] = 0]
         /\ gridCells' = [gridCells EXCEPT ![c] = entry.size * entry.size]
         /\ origin' = [origin EXCEPT ![c] = doc]
         /\ Finished(c, "import")
         /\ UNCHANGED <<remote, inbox, entriesRef, entries, selector, isUpdating,
                        cellCycles, downloads>>

\* importFromJSON (src/script.js:758-798): reader.onload on the file's text
importFromJSON(c, doc, confirmed) ==
    IF "parseError" \in DOMAIN doc
    THEN Rejected(c, "import", "unparsable")
    ELSE IF InvalidFormat(doc)
    THEN Rejected(c, "import", "invalid")
    ELSE IF HasName(entries[c], doc.name) /\ ~confirmed
    THEN Rejected(c, "import", "unconfirmed")
    ELSE LET entry == ImportedEntry(doc) IN
         /\ outbox' = [outbox EXCEPT ![c] = OutboxAfterSave(c, entry)]
         /\ putCalls' = [putCalls EXCEPT ![c] = PutCallsAfterSave(c)]
         /\ otherWrites' = [otherWrites EXCEPT ![c] = @ + 1]
         /\ currentEntry' = [currentEntry EXCEPT ![c] = EntryAfterSave(c, entry)]
         /\ alias' = [alias EXCEPT ![c] = 0]
         /\ gridCells' = [gridCells EXCEPT ![c] = entry.size * entry.size]
         /\ origin' = [origin EXCEPT ![c] = doc]
         /\ Finished(c, "import")
         /\ UNCHANGED <<remote, inbox, entriesRef, entries, selector, isUpdating,
                        cellCycles, downloads>>

\* measurements.filter(m => m === v).length (src/script.js:411-414); filter
\* skips empty slots.
CountOf(m, v) == Cardinality({k \in 1..Len(m) : m[k] = v})

\* The coordinate list of state v (src/script.js:431-443): [row, col] of
\* every index holding v, pushed in the order of the loop.
RECURSIVE DevicesOf(_, _, _, _)
DevicesOf(m, size, v, i) ==
    IF i >= Len(m) THEN <<>>
    ELSE (IF m[i + 1] = v THEN << <<i \div size, i % size>> >> ELSE <<>>)
            \o DevicesOf(m, size, v, i + 1)

\* exportData as JSON.stringify prints it and JSON.parse reads it back
\* (src/script.js:399-445).
ExportData(entry) ==
    LET m == entry.measurements
        size == entry.size IN
    [name |-> entry.name,
     size |-> size,
     createdAt |-> entry.createdAt,
     lastModified |-> entry.lastModified,
     measurements |->
        [raw |-> [k \in 1..Len(m) |-> JsonValue(m[k])],
         grid |-> [i \in 1..size |->
                     [j \in 1..size |->
                         JsonValue(ArrayGet(m, (i - 1) * size + (j - 1)))]]],
     statistics |->
        [total |-> Len(m),
         successful |-> CountOf(m, 1),
         failed |-> CountOf(m, 2),
         misaligned |-> CountOf(m, 3),
         unmeasured |-> CountOf(m, 0)],
     successfulDevices |-> DevicesOf(m, size, 1, 0),
     failedDevices |-> DevicesOf(m, size, 2, 0),
     misalignedDevices |-> DevicesOf(m, size, 3, 0)]

\* An export that saves the entry it exported.
exportCurrentEntrySaving(c) ==
    IF currentEntry[c] = Null
    THEN Rejected(c, "export", "empty")
    ELSE LET saved == EntryAfterSave(c, currentEntry[c]) IN
         /\ downloads' = [downloads EXCEPT ![c] = Append(@, ExportData(currentEntry[c]))]
         /\ currentEntry' = [currentEntry EXCEPT ![c] = saved]
         /\ entries' = [entries EXCEPT ![c] = EntriesAfterMutation(c, saved)]
         /\ outbox' = [outbox EXCEPT ![c] = OutboxAfterSave(c, currentEntry[c])]
         /\ putCalls' = [putCalls EXCEPT ![c] = PutCallsAfterSave(c)]
         /\ Finished(c, "export")
         /\ UNCHANGED <<remote, inbox, entriesRef, alias, gridCells, selector,
                        isUpdating, cellCycles, otherWrites, origin>>

\* exportCurrentEntry (src/script.js:396-455 and src/unnamed/part_000:306-365):
\* the browser saves the printed document as a file.
exportCurrentEntry(c) ==
    IF currentEntry[c] = Null
    THEN Rejected(c, "export", "empty")
    ELSE /\ downloads' = [downloads EXCEPT ![c] = Append(@, ExportData(currentEntry[c]))]
         /\ Finished(c, "export")
         /\ UNCHANGED <<remote, outbox, inbox, entriesRef, entries, currentEntry, alias,
                        gridCells, selector, isUpdating, putCalls, cellCycles,
                        otherWrites, origin>>

\* A listener that, finding the store's copy of the shown entry different
\* from its own, pushes its own copy to the store instead of adopting the
\* store's.  (The count of puts stops one above the number of handlers
\* that ran, which no client's own handlers can reach.)
ValueListenerPushingBack(c) ==
    /\ inbox[c] # <<>>
    /\ LET data == Head(inbox[c])
           fresh == ObjectValues(data)
           cur == currentEntry[c]
           idx == IF cur # Null THEN FindIndex(fresh, cur.name) ELSE 0
           differs == /\ idx # 0
                      /\ Stringify(fresh[idx].measurements) # Stringify(cur.measurements) IN
       /\ entries' = [entries EXCEPT ![c] = fresh]
       /\ selector' = [selector EXCEPT ![c] = NamesOf(fresh)]
       /\ alias' = [alias EXCEPT ![c] = 0]
       /\ outbox' = [outbox EXCEPT ![c] =
              IF differs THEN Append(@, [key |-> SanitizeName(cur.name), value |-> cur])
              ELSE @]
       /\ putCalls' = [putCalls EXCEPT ![c] = IF differs /\ @ <= now THEN @ + 1 ELSE @]
    /\ inbox' = [inbox EXCEPT ![c] = Tail(@)]
    /\ isUpdating' = [isUpdating EXCEPT ![c] = FALSE]
    /\ lastOp' = NoOp
    /\ streak' = NoStreak
    /\ UNCHANGED <<variant, remote, currentEntry, entriesRef, gridCells, cellCycles,
                   otherWrites, edit, lastWriter, connected, downloads, origin,
                   now, storage, selectedCellIndex>>

\* A listener that keeps its own copy of the shown entry when the store's
\* copy carries an older lastModified: the newest edit wins, not the last
\* arrival.
ValueListenerNewestWins(c) ==
    /\ inbox[c] # <<>>
    /\ LET data == Head(inbox[c])
           fresh == ObjectValues(data)
           cur == currentEntry[c]
           idx == IF cur # Null THEN FindIndex(fresh, cur.name) ELSE 0
           adopt == /\ idx # 0
                    /\ Stringify(fresh[idx].measurements) # Stringify(cur.measurements)
                    /\ fresh[idx].lastModified >= cur.lastModified IN
       /\ entries' = [entries EXCEPT ![c] = fresh]
       /\ selector' = [selector EXCEPT ![c] = NamesOf(fresh)]
       /\ currentEntry' = [currentEntry EXCEPT ![c] = IF adopt THEN fresh[idx] ELSE cur]
       /\ alias' = [alias EXCEPT ![c] = IF adopt THEN idx ELSE 0]
    /\ inbox' = [inbox EXCEPT ![c] = Tail(@)]
    /\ isUpdating' = [isUpdating EXCEPT ![c] = FALSE]
    /\ lastOp' = NoOp
    /\ streak' = NoStreak
    /\ UNCHANGED <<variant, remote, outbox, entriesRef, gridCells, putCalls,
                   cellCycles, otherWrites, edit, lastWriter, connected, downloads, origin, now, storage, selectedCellIndex>>

\* A listener that refreshes entries and never touches the active entry.
ValueListenerKeepingActive(c) ==
    /\ inbox[c] # <<>>
    /\ LET fresh == ObjectValues(Head(inbox[c])) IN
       /\ entries' = [entries EXCEPT ![c] = fresh]
       /\ selector' = [selector EXCEPT ![c] = NamesOf(fresh)]
       /\ alias' = [alias EXCEPT ![c] = 0]
    /\ inbox' = [inbox EXCEPT ![c] = Tail(@)]
    /\ lastOp' = NoOp
    /\ streak' = NoStreak
    /\ UNCHANGED <<variant, remote, outbox, entriesRef, currentEntry, gridCells, putCalls,
                   isUpdating, cellCycles, otherWrites, edit, lastWriter, connected,
                   downloads, origin, now, storage, selectedCellIndex>>

\* The 'value' listener (src/script.js:113-129) on the oldest notification.
\* When it adopts an entry whose measurements is no array, updateStatistics
\* throws at measurements.filter (line 355) and the listener ends before
\* line 128: isUpdating stays true.
ValueListener(c) ==
    /\ inbox[c] # <<>>
    /\ LET data == Head(inbox[c])
           fresh == ObjectValues(data)
           cur == currentEntry[c]
           idx == IF cur # Null THEN FindIndex(fresh, cur.name) ELSE 0
           adopt == /\ idx # 0
                    /\ Stringify(fresh[idx].measurements) # Stringify(cur.measurements) IN
       /\ entries' = [entries EXCEPT ![c] = fresh]
       /\ selector' = [selector EXCEPT ![c] = NamesOf(fresh)]
       /\ currentEntry' = [currentEntry EXCEPT ![c] = IF adopt THEN fresh[idx] ELSE cur]
       /\ alias' = [alias EXCEPT ![c] = IF adopt THEN idx ELSE 0]
       /\ isUpdating' = [isUpdating EXCEPT ![c] =
                             adopt /\ ~IsArray(fresh[idx].measurements)]
    /\ inbox' = [inbox EXCEPT ![c] = Tail(@)]
    /\ lastOp' = NoOp
    /\ streak' = NoStreak
    /\ UNCHANGED <<variant, remote, outbox, entriesRef, gridCells, putCalls,
                   cellCycles, otherWrites, edit, lastWriter, connected, downloads, origin, now, storage, selectedCellIndex>>

(* -------------------- gossip-store script (part_000) -------------------- *)

\* The write saveEntry(entry) hands to the store (src/unnamed/part_000:97-98).
PutOfGun(entry) == [key |-> sanitizeKey(entry.name), value |-> entry]

\* An upsert that never looks for an entry of the same name.
UpsertAppending(seq, entry) == Append(seq, entry)

\* The entries array after saveEntry's upsert by name (part_000:101-106).
Upsert(seq, entry) ==
    IF FindIndex(seq, entry.name) # 0
    THEN [seq EXCEPT ![FindIndex(seq, entry.name)] = entry]
    ELSE Append(seq, entry)

\* saveEntry (src/unnamed/part_000:94-108).  arr is the entries array when
\* it is called and skipped the place of entry's object in arr (0: not in
\* it).  The localStorage backup, read only at start-up, is left out.
saveEntryGun(c, entry, arr, skipped) ==
    IF isUpdating[c]
    THEN /\ entries' = [entries EXCEPT ![c] = arr]
         /\ alias' = [alias EXCEPT ![c] = skipped]
         /\ UNCHANGED <<outbox, putCalls>>
    ELSE /\ outbox' = [outbox EXCEPT ![c] = Append(@, PutOfGun(entry))]
         /\ putCalls' = [putCalls EXCEPT ![c] = @ + 1]
         /\ entries' = [entries EXCEPT ![c] = Upsert(arr, entry)]
         /\ alias' = [alias EXCEPT ![c] = FindIndex(Upsert(arr, entry), entry.name)]

\* createNewEntry (src/unnamed/part_000:123-149)
createNewEntryGun(c, rawName, size) ==
    LET name == Trim(rawName) IN
    IF name = <<>>
    THEN Rejected(c, "create", "empty")
    ELSE IF HasName(entries[c], name)
    THEN Rejected(c, "create", "duplicate")
    ELSE LET entry == NewEntry(name, size) IN
         /\ saveEntryGun(c, entry, entries[c], 0)
         /\ otherWrites' = [otherWrites EXCEPT ![c] = @ + 1]
         /\ currentEntry' = [currentEntry EXCEPT ![c] = entry]
         /\ gridCells' = [gridCells EXCEPT ![c] = size * size]
         /\ Completed(c, "create")
         /\ UNCHANGED <<remote, inbox, entriesRef, selector, isUpdating, cellCycles>>

\* handleCellClick (src/unnamed/part_000:238-249)
handleCellClickGun(c, index) ==
    /\ currentEntry[c] # Null
    /\ index \in 0..(gridCells[c] - 1)
    /\ IF isUpdating[c]
       THEN Rejected(c, "click", "updating")
       ELSE LET mutated == CycledEntry(currentEntry[c], index) IN
            /\ currentEntry' = [currentEntry EXCEPT ![c] = mutated]
            /\ saveEntryGun(c, mutated, EntriesAfterMutation(c, mutated), alias[c])
            /\ cellCycles' = [cellCycles EXCEPT ![c] = @ + 1]
            /\ Cycled(c, index, currentEntry[c])
            /\ UNCHANGED <<remote, inbox, entriesRef, gridCells, selector, isUpdating,
                           otherWrites>>

\* clearAllMeasurements (src/unnamed/part_000:367-380)
clearAllMeasurementsGun(c, confirmed) ==
    IF currentEntry[c] = Null
    THEN Rejected(c, "clear", "empty")
    ELSE IF ~confirmed
    THEN Rejected(c, "clear", "unconfirmed")
    ELSE LET cleared == ClearedEntry(currentEntry[c]) IN
         /\ currentEntry' = [currentEntry EXCEPT ![c] = cleared]
         /\ saveEntryGun(c, cleared, EntriesAfterMutation(c, cleared), alias[c])
         /\ otherWrites' = [otherWrites EXCEPT ![c] = @ + 1]
         /\ Completed(c, "clear")
         /\ UNCHANGED <<remote, inbox, entriesRef, gridCells, selector, isUpdating,
                        cellCycles>>

\* deleteSelectedEntry (src/unnamed/part_000:166-185) with deleteEntry (110-117)
deleteSelectedEntryGun(c, k, confirmed) ==
    /\ IF selector[c] = <<>> THEN k = 0 ELSE k \in 1..Len(selector[c])
    /\ IF k = 0
       THEN Rejected(c, "delete", "empty")
       ELSE IF ~confirmed
       THEN Rejected(c, "delete", "unconfirmed")
       ELSE LET selectedName == selector[c][k]
                kept == FilterOut(entries[c], selectedName) IN
            /\ outbox' = [outbox EXCEPT ![c] =
                             Append(@, [key |-> sanitizeKey(selectedName),
                                        value |-> Null])]
            /\ entries' = [entries EXCEPT ![c] = kept]
            /\ selector' = [selector EXCEPT ![c] = NamesOf(kept)]
            /\ IF currentEntry[c] # Null /\ currentEntry[c].name = selectedName
               THEN /\ currentEntry' = [currentEntry EXCEPT ![c] = Null]
                    /\ alias' = [alias EXCEPT ![c] = 0]
               ELSE /\ UNCHANGED currentEntry
                    /\ alias' = [alias EXCEPT ![c] =
                          Len(FilterOut(SubSeq(entries[c], 1, @), selectedName))]
            /\ Completed(c, "delete")
            /\ UNCHANGED <<remote, inbox, entriesRef, gridCells, isUpdating,
                           putCalls, cellCycles, otherWrites>>

\* The entriesDB.map().on listener (src/unnamed/part_000:67-91) on the
\* oldest notification.
MapListener(c) ==
    /\ inbox[c] # <<>>
    /\ inbox' = [inbox EXCEPT ![c] = Tail(@)]
    /\ LET data == Head(inbox[c]).value IN
       IF data = Null
       THEN UNCHANGED <<entries, selector, currentEntry, alias, isUpdating>>
       ELSE /\ entries' = [entries EXCEPT ![c] = Upsert(@, data)]
            /\ selector' = [selector EXCEPT ![c] = NamesOf(Upsert(entries[c], data))]
            /\ IF currentEntry[c] # Null /\ currentEntry[c].name = data.name
               THEN /\ currentEntry' = [currentEntry EXCEPT ![c] = data]
                    /\ alias' = [alias EXCEPT ![c] =
                                    FindIndex(Upsert(entries[c], data), data.name)]
               ELSE UNCHANGED <<currentEntry, alias>>
            /\ isUpdating' = [isUpdating EXCEPT ![c] = FALSE]
    /\ lastOp' = NoOp
    /\ streak' = NoStreak
    /\ UNCHANGED <<variant, remote, outbox, entriesRef, gridCells, putCalls,
                   cellCycles, otherWrites, edit, lastWriter, connected, downloads, origin, now, storage, selectedCellIndex>>

(* ------------------------------ the store ------------------------------- *)

\* What the store tells a subscriber after a write: the hosted store sends
\* the collection's new value, the gossip store the written key and value.
Notification(w, data) ==
    IF variant = "firebase" THEN data ELSE [key |-> w.key, value |-> w.value]

\* The store applies the oldest write of client c and notifies every
\* subscriber, the writer included (src/ARCHITECTURE.md, write operation flow).
StoreApply(c) ==
    /\ outbox[c] # <<>>
    /\ LET w == Head(outbox[c])
           data == [remote EXCEPT ![w.key] = w.value] IN
       /\ remote' = data
       /\ inbox' = [d \in Clients |->
                       IF entriesRef[d] THEN Append(inbox[d], Notification(w, data))
                       ELSE inbox[d]]
    /\ outbox' = [outbox EXCEPT ![c] = Tail(@)]
    /\ lastWriter' = c
    /\ lastOp' = NoOp
    /\ streak' = NoStreak
    /\ UNCHANGED <<variant, entriesRef, entries, currentEntry, alias, gridCells,
                   selector, isUpdating, putCalls, cellCycles, otherWrites, edit,
                   connected, downloads, origin, now, storage, selectedCellIndex>>

(* ------------------------------- Next ----------------------------------- *)

\* Largest number of cells a rendered grid has.
MaxCells ==
    LET largest == CHOOSE s \in ArraySizes : \A t \in ArraySizes : t <= s
    IN  largest * largest

Firebase == variant = "firebase"

Gun == variant = "gun"

CanAct == now < MaxOps

Next ==
    \/ \E c \in Clients, n \in NameInputs, s \in ArraySizes :
          CanAct /\ Firebase /\ createNewEntry(c, n, s)
    \/ \E c \in Clients, k \in 1..Len(AllKeys) :
          CanAct /\ Firebase /\ loadSelectedEntry(c, k)
    \/ \E c \in Clients, i \in 0..(MaxCells - 1) :
          CanAct /\ Firebase /\ handleCellClick(c, i)
    \/ \E c \in Clients, k \in 0..Len(AllKeys), b \in BOOLEAN :
          CanAct /\ Firebase /\ deleteSelectedEntry(c, k, b)
    \/ \E c \in Clients, b \in BOOLEAN :
          CanAct /\ Firebase /\ clearAllMeasurements(c, b)
    \/ \E c \in Clients, d \in ImportDocs, b \in BOOLEAN :
          CanAct /\ Firebase /\ importFromJSON(c, d, b)
    \/ \E c \in Clients : Firebase /\ ValueListener(c)
    \/ \E c \in Clients, n \in NameInputs, s \in ArraySizes :
          CanAct /\ Gun /\ createNewEntryGun(c, n, s)
    \/ \E c \in Clients, k \in 1..Len(AllKeys) :
          CanAct /\ Gun /\ loadSelectedEntry(c, k)
    \/ \E c \in Clients, i \in 0..(MaxCells - 1) :
          CanAct /\ Gun /\ handleCellClickGun(c, i)
    \/ \E c \in Clients, k \in 0..Len(AllKeys), b \in BOOLEAN :
          CanAct /\ Gun /\ deleteSelectedEntryGun(c, k, b)
    \/ \E c \in Clients, b \in BOOLEAN :
          CanAct /\ Gun /\ clearAllMeasurementsGun(c, b)
    \/ \E c \in Clients : Gun /\ MapListener(c)
    \/ \E c \in Clients : StoreApply(c)

Spec == Init /\ [][Next]_vars

(* ---------------- two clients working on a shared entry ----------------- *)

\* Number of handlers that run to completion in the shared-entry scenario.
MaxEdits == 2

CanEdit == now < MaxEdits

NextShared ==
    \/ \E c \in Clients, k \in 1..Len(AllKeys) :
          CanEdit /\ Firebase /\ loadSelectedEntry(c, k)
    \/ \E c \in Clients, i \in 0..(MaxCells - 1) :
          CanEdit /\ Firebase /\ handleCellClick(c, i)
    \/ \E c \in Clients, k \in 0..Len(AllKeys), b \in BOOLEAN :
          CanEdit /\ Firebase /\ deleteSelectedEntry(c, k, b)
    \/ \E c \in Clients, b \in BOOLEAN :
          CanEdit /\ Firebase /\ clearAllMeasurements(c, b)
    \/ \E c \in Clients : Firebase /\ ValueListener(c)
    \/ \E c \in Clients, k \in 1..Len(AllKeys) :
          CanEdit /\ Gun /\ loadSelectedEntry(c, k)
    \/ \E c \in Clients, i \in 0..(MaxCells - 1) :
          CanEdit /\ Gun /\ handleCellClickGun(c, i)
    \/ \E c \in Clients, k \in 0..Len(AllKeys), b \in BOOLEAN :
          CanEdit /\ Gun /\ deleteSelectedEntryGun(c, k, b)
    \/ \E c \in Clients, b \in BOOLEAN :
          CanEdit /\ Gun /\ clearAllMeasurementsGun(c, b)
    \/ \E c \in Clients : Gun /\ MapListener(c)
    \/ \E c \in Clients : StoreApply(c)

SpecShared == InitLoaded /\ [][NextShared]_vars

(* ------------------- clients cycling cells repeatedly ------------------- *)

\* Number of cell cycles in the cycling scenario.
MaxCycles == 4

CanCycle == now < MaxCycles

\* The clients whose user cycles cells; the others watch.
Cyclers == {"A"}

\* The cells the user cycles: the first, in state 0, and the last, in state 3.
CycledCells == {0, MaxCells - 1}

NextCycle ==
    \/ \E c \in Cyclers, i \in CycledCells :
          CanCycle /\ Firebase /\ handleCellClick(c, i)
    \/ \E c \in Clients : Firebase /\ ValueListener(c)
    \/ \E c \in Cyclers, i \in CycledCells :
          CanCycle /\ Gun /\ handleCellClickGun(c, i)
    \/ \E c \in Clients : Gun /\ MapListener(c)
    \/ \E c \in Clients : StoreApply(c)

SpecCycle == InitLoaded /\ [][NextCycle]_vars

\* The store applies every write it was handed and every client's listener
\* runs on every notification: the event loop leaves no callback waiting
\* for ever.
FairDelivery ==
    \A c \in Clients :
        /\ WF_vars(StoreApply(c))
        /\ WF_vars(Firebase /\ ValueListener(c))
        /\ WF_vars(Gun /\ MapListener(c))

(* ------------------- both users edit, then stop editing ----------------- *)

\* Number of cell cycles the two users make before they stop.
MaxEchoEdits == 2

CanEcho == now < MaxEchoEdits

NextEcho ==
    \/ \E c \in Clients, i \in CycledCells :
          CanEcho /\ Firebase /\ handleCellClick(c, i)
    \/ \E c \in Clients : Firebase /\ ValueListener(c)
    \/ \E c \in Clients, i \in CycledCells :
          CanEcho /\ Gun /\ handleCellClickGun(c, i)
    \/ \E c \in Clients : Gun /\ MapListener(c)
    \/ \E c \in Clients : StoreApply(c)

FairEcho == InitLoaded /\ [][NextEcho]_vars /\ FairDelivery

(* --------------- editing while the store is out of reach ---------------- *)

\* Number of handlers that run to completion in the out-of-reach scenario.
MaxOfflineEdits == 2

CanEditOffline == now < MaxOfflineEdits

\* The clients whose page may have loaded without the store's library, so
\* that initializeFirebase returned at src/script.js:91-94 with entriesRef
\* still null.
MayLackStore == {"B"}

\* An entry created on a page that has no store: it was never saved.
UnsavedEntry ==
    [name |-> <<"w">>, size |-> 2, createdAt |-> 0, lastModified |-> 0,
     measurements |-> ArrayFill(4, 0)]

\* A deployment in use.  In the hosted-store script a client of MayLackStore
\* may run without the store: it received nothing, shows an entry it created
\* itself, and its status reads disconnected for good.
InitOffline ==
    /\ variant \in Variants
    /\ entriesRef \in [Clients -> BOOLEAN]
    /\ \A c \in Clients : ~entriesRef[c] => variant = "firebase" /\ c \in MayLackStore
    /\ remote = [k \in Keys |-> IF k = <<"w">> THEN SharedEntry ELSE OtherEntry]
    /\ entries = [c \in Clients |->
                     IF entriesRef[c] THEN <<OtherEntry, SharedEntry>> ELSE <<>>]
    /\ currentEntry = [c \in Clients |->
                          IF entriesRef[c] THEN SharedEntry ELSE UnsavedEntry]
    /\ alias = [c \in Clients |-> IF entriesRef[c] THEN 2 ELSE 0]
    /\ gridCells = [c \in Clients |-> 4]
    /\ selector = [c \in Clients |->
                      IF entriesRef[c] THEN << <<"a", ".">>, <<"w">> >> ELSE <<>>]
    /\ connected = entriesRef
    /\ outbox = [c \in Clients |-> <<>>]
    /\ inbox = [c \in Clients |-> <<>>]
    /\ isUpdating = [c \in Clients |-> FALSE]
    /\ putCalls = [c \in Clients |-> 0]
    /\ cellCycles = [c \in Clients |-> 0]
    /\ otherWrites = [c \in Clients |-> 0]
    /\ lastOp = NoOp
    /\ streak = NoStreak
    /\ edit = [c \in Clients |-> NoEdit]
    /\ lastWriter = "none"
    /\ downloads = [c \in Clients |-> <<>>]
    /\ origin = [c \in Clients |-> Null]
    /\ storage = [c \in Clients |-> Null]
    /\ selectedCellIndex = [c \in Clients |-> NoCell]
    /\ now = 0

\* The connection indicator of client c flips: the '.info/connected'
\* listener (src/script.js:103-110) or the navigator.onLine poll
\* (src/unnamed/part_000:35-43) calls updateConnectionStatus, which writes
\* the status line and nothing else (src/script.js:144-150).
ConnectionChange(c) ==
    /\ entriesRef[c]
    /\ connected' = [connected EXCEPT ![c] = ~@]
    /\ lastOp' = [op |-> "connection", client |-> c, ok |-> TRUE, index |-> 0 - 1,
                  why |-> ""]
    /\ streak' = NoStreak
    /\ UNCHANGED <<variant, remote, outbox, inbox, entriesRef, entries, currentEntry,
                   alias, gridCells, selector, isUpdating, putCalls, cellCycles,
                   otherWrites, edit, lastWriter, downloads, origin, now,
                   storage, selectedCellIndex>>

\* What a client holds after a failed write, were the handler to take the
\* optimistic change back: the store's value of the key.
StoreRejectRollingBack(c) ==
    /\ outbox[c] # <<>>
    /\ outbox' = [outbox EXCEPT ![c] = Tail(@)]
    /\ currentEntry' = [currentEntry EXCEPT ![c] = remote[Head(outbox[c]).key]]
    /\ lastOp' = [op |-> "reject", client |-> c, ok |-> FALSE, index |-> 0 - 1,
                  why |-> "store"]
    /\ streak' = NoStreak
    /\ UNCHANGED <<variant, remote, inbox, entriesRef, entries, alias, gridCells,
                   selector, isUpdating, putCalls, cellCycles, otherWrites, edit,
                   lastWriter, connected, downloads, origin, now, storage, selectedCellIndex>>

\* The store turns down, or loses, the oldest write of client c.  The
\* hosted-store script's catch handlers log and alert (src/script.js:160-166
\* and 174-180); the gossip-store script's put has no callback at all
\* (src/unnamed/part_000:97-98).  Nothing the client holds is touched.
StoreReject(c) ==
    /\ outbox[c] # <<>>
    /\ outbox' = [outbox EXCEPT ![c] = Tail(@)]
    /\ lastOp' = [op |-> "reject", client |-> c, ok |-> FALSE, index |-> 0 - 1,
                  why |-> "store"]
    /\ streak' = NoStreak
    /\ UNCHANGED <<variant, remote, inbox, entriesRef, entries, currentEntry, alias,
                   gridCells, selector, isUpdating, putCalls, cellCycles, otherWrites,
                   edit, lastWriter, connected, downloads, origin, now, storage, selectedCellIndex>>

\* Writes reach the store, and notifications the client, only while the
\* client is connected.
NextOffline ==
    \/ \E c \in Clients, i \in CycledCells :
          CanEditOffline /\ Firebase /\ handleCellClick(c, i)
    \/ \E c \in Clients, b \in BOOLEAN :
          CanEditOffline /\ Firebase /\ clearAllMeasurements(c, b)
    \/ \E c \in Clients : Firebase /\ connected[c] /\ ValueListener(c)
    \/ \E c \in Clients, i \in CycledCells :
          CanEditOffline /\ Gun /\ handleCellClickGun(c, i)
    \/ \E c \in Clients, b \in BOOLEAN :
          CanEditOffline /\ Gun /\ clearAllMeasurementsGun(c, b)
    \/ \E c \in Clients : Gun /\ connected[c] /\ MapListener(c)
    \/ \E c \in Clients : connected[c] /\ StoreApply(c)
    \/ \E c \in Clients : StoreReject(c)
    \/ \E c \in Clients : ConnectionChange(c)

SpecOffline == InitOffline /\ [][NextOffline]_vars

(* ------------------- exporting and importing files --------------------- *)

\* Number of handlers that run to completion in the file scenario.
MaxFiles == 3

CanFile == now < MaxFiles

\* The client whose user exports and imports; the other watches.
Filers == {"A"}

\* Files the user has on disk besides the downloads, as the documents
\* JSON.parse yields: an export of an entry named w, an export of an entry
\* the store does not hold, four documents lacking name, size, measurements
\* and measurements.raw in turn, a file that is not JSON, and a document
\* whose raw array does not fit its size.
ImportFiles ==
    { [name |-> <<"w">>, size |-> 2, createdAt |-> 0,
       measurements |-> [raw |-> <<3, 2, 1, 0>>]],
      [name |-> <<"a", ".">>, size |-> 1, measurements |-> [raw |-> <<1>>]],
      [size |-> 1, measurements |-> [raw |-> <<1>>]],
      [name |-> <<"w">>, measurements |-> [raw |-> <<1>>]],
      [name |-> <<"w">>, size |-> 1],
      [name |-> <<"w">>, size |-> 1, measurements |-> [grid |-> << <<1>> >>]],
      [parseError |-> TRUE],
      [name |-> <<"w">>, size |-> 2, measurements |-> [raw |-> <<7>>]] }

\* The files client c can pick in the import dialog.
FilesOf(c) == ImportFiles \cup {downloads[c][k] : k \in 1..Len(downloads[c])}

\* A deployment in use whose store holds the shared entry only; every
\* client received it and loaded it.
InitImport ==
    /\ remote = [k \in Keys |-> IF k = <<"w">> THEN SharedEntry ELSE Null]
    /\ entries = [c \in Clients |-> <<SharedEntry>>]
    /\ currentEntry = [c \in Clients |-> SharedEntry]
    /\ alias = [c \in Clients |-> 1]
    /\ gridCells = [c \in Clients |-> 4]
    /\ selector = [c \in Clients |-> << <<"w">> >>]
    /\ InitRest

NextImport ==
    \/ \E c \in Filers : CanFile /\ exportCurrentEntry(c)
    \/ \E c \in Filers, b \in BOOLEAN : \E d \in FilesOf(c) :
          CanFile /\ Firebase /\ importFromJSON(c, d, b)
    \/ \E c \in Filers, i \in CycledCells :
          CanFile /\ Firebase /\ handleCellClick(c, i)
    \/ \E c \in Clients : Firebase /\ ValueListener(c)
    \/ \E c \in Filers, i \in CycledCells :
          CanFile /\ Gun /\ handleCellClickGun(c, i)
    \/ \E c \in Clients : Gun /\ MapListener(c)
    \/ \E c \in Clients : StoreApply(c)

SpecImport == InitImport /\ [][NextImport]_vars

(* ------------------- cycling devices by coordinates --------------------- *)

\* Texts typed into the bottomElectrode and topElectrode fields.
CoordInputs ==
    { <<>>, <<"x">>, <<"0">>, <<"1">>, <<"2">>, <<"-", "1">>, <<"1", "e", "1">> }

Digits == <<"0", "1", "2", "3", "4", "5", "6", "7", "8", "9">>

IsDigit(ch) == \E d \in 1..Len(Digits) : Digits[d] = ch

DigitValue(ch) == (CHOOSE d \in 1..Len(Digits) : Digits[d] = ch) - 1

\* The longest prefix of text made of digits.
RECURSIVE DigitPrefix(_)
DigitPrefix(text) ==
    IF text # <<>> /\ IsDigit(Head(text))
    THEN <<Head(text)>> \o DigitPrefix(Tail(text))
    ELSE <<>>

\* The number a sequence of digits writes, after the digits acc stands for.
RECURSIVE DigitsValue(_, _)
DigitsValue(text, acc) ==
    IF text = <<>> THEN acc
    ELSE DigitsValue(Tail(text), 10 * acc + DigitValue(Head(text)))

\* parseInt(text) (src/script.js:476-477): blanks are skipped, a sign is
\* read, then the digits up to the first other character; nan when there
\* is no digit to read.
parseInt(text) ==
    LET t == TrimLeft(text)
        negative == t # <<>> /\ Head(t) = "-"
        body == IF negative THEN Tail(t) ELSE t
        digits == DigitPrefix(body) IN
    IF digits = <<>> THEN [nan |-> TRUE, value |-> 0]
    ELSE [nan |-> FALSE,
          value |-> IF negative THEN 0 - DigitsValue(digits, 0)
                    ELSE DigitsValue(digits, 0)]

\* getDeviceIndex (src/script.js:473-485, src/unnamed/part_000:383-395)
getDeviceIndex(c, bottom, top) ==
    IF currentEntry[c] = Null THEN 0 - 1
    ELSE LET b == parseInt(bottom)
             t == parseInt(top)
             size == currentEntry[c].size IN
         IF b.nan \/ t.nan \/ b.value < 0 \/ b.value >= size
               \/ t.value < 0 \/ t.value >= size
         THEN 0 - 1
         ELSE b.value * size + t.value

\* The end of cycleDeviceByCoords after it cycled the cell index of cur;
\* why tells how handleCellClick ended.
CycledByCoords(c, index, cur, why) ==
    /\ lastOp' = [op |-> "coords", client |-> c, ok |-> TRUE, index |-> index,
                  why |-> why]
    /\ streak' = NoStreak
    /\ edit' = [edit EXCEPT ![c] = [index |-> index, name |-> cur.name,
                                     before |-> cur.measurements]]
    /\ now' = now + 1
    /\ UNCHANGED <<variant, lastWriter, connected, downloads, origin, storage, selectedCellIndex>>

\* cycleDeviceByCoords (src/script.js:512-532) with handleCellClick
\* (322-339).  With no entry loaded the alert's text reads currentEntry.size
\* and throws; with an index that has no rendered cell, handleCellClick
\* throws at updateCellAppearance (line 335, cell is null), after it changed
\* the entry and before saveEntry.
cycleDeviceByCoords(c, bottom, top) ==
    LET index == getDeviceIndex(c, bottom, top) IN
    IF index < 0
    THEN Rejected(c, "coords", "invalid")
    ELSE IF isUpdating[c]
    THEN Rejected(c, "coords", "updating")
    ELSE LET cur == currentEntry[c]
             mutated == CycledEntry(cur, index) IN
         /\ cellCycles' = [cellCycles EXCEPT ![c] = @ + 1]
         /\ IF index >= gridCells[c]
            THEN /\ currentEntry' = [currentEntry EXCEPT ![c] = mutated]
                 /\ entries' = [entries EXCEPT ![c] = EntriesAfterMutation(c, mutated)]
                 /\ CycledByCoords(c, index, cur, "no cell")
                 /\ UNCHANGED <<outbox, putCalls>>
            ELSE LET saved == EntryAfterSave(c, mutated) IN
                 /\ currentEntry' = [currentEntry EXCEPT ![c] = saved]
                 /\ entries' = [entries EXCEPT ![c] = EntriesAfterMutation(c, saved)]
                 /\ outbox' = [outbox EXCEPT ![c] = OutboxAfterSave(c, mutated)]
                 /\ putCalls' = [putCalls EXCEPT ![c] = PutCallsAfterSave(c)]
                 /\ CycledByCoords(c, index, cur, "")
         /\ UNCHANGED <<remote, inbox, entriesRef, alias, gridCells, selector,
                        isUpdating, otherWrites>>

\* cycleDeviceByCoords (src/unnamed/part_000:425-457) with handleCellClick
\* (238-249): the same, saving through the gossip script's saveEntry.
cycleDeviceByCoordsGun(c, bottom, top) ==
    LET index == getDeviceIndex(c, bottom, top) IN
    IF index < 0
    THEN Rejected(c, "coords", "invalid")
    ELSE IF isUpdating[c]
    THEN Rejected(c, "coords", "updating")
    ELSE LET cur == currentEntry[c]
             mutated == CycledEntry(cur, index) IN
         /\ cellCycles' = [cellCycles EXCEPT ![c] = @ + 1]
         /\ currentEntry' = [currentEntry EXCEPT ![c] = mutated]
         /\ IF index >= gridCells[c]
            THEN /\ entries' = [entries EXCEPT ![c] = EntriesAfterMutation(c, mutated)]
                 /\ CycledByCoords(c, index, cur, "no cell")
                 /\ UNCHANGED <<outbox, putCalls, alias>>
            ELSE /\ saveEntryGun(c, mutated, EntriesAfterMutation(c, mutated), alias[c])
                 /\ CycledByCoords(c, index, cur, "")
         /\ UNCHANGED <<remote, inbox, entriesRef, gridCells, selector, isUpdating,
                        otherWrites>>

\* Number of handlers that run to completion in the coordinates scenario.
MaxNavOps == 2

CanNav == now < MaxNavOps

\* Files on the users' disks: exports of entries named w that were made
\* with one cell and with four.
NavFiles ==
    { [name |-> <<"w">>, size |-> 1, createdAt |-> 0, measurements |-> [raw |-> <<2>>]],
      [name |-> <<"w">>, size |-> 2, createdAt |-> 0,
       measurements |-> [raw |-> <<3, 2, 1, 0>>]] }

\* A deployment in use: the store holds both entries and every client
\* received them; client A loaded the shared entry, client B none yet.
InitNav ==
    /\ remote = [k \in Keys |-> IF k = <<"w">> THEN SharedEntry ELSE OtherEntry]
    /\ entries = [c \in Clients |-> <<OtherEntry, SharedEntry>>]
    /\ currentEntry = [c \in Clients |-> IF c = "A" THEN SharedEntry ELSE Null]
    /\ alias = [c \in Clients |-> IF c = "A" THEN 2 ELSE 0]
    /\ gridCells = [c \in Clients |-> IF c = "A" THEN 4 ELSE 0]
    /\ selector = [c \in Clients |-> << <<"a", ".">>, <<"w">> >>]
    /\ InitRest

NextNav ==
    \/ \E c \in Clients, b \in CoordInputs, t \in CoordInputs :
          CanNav /\ Firebase /\ cycleDeviceByCoords(c, b, t)
    \/ \E c \in Clients, i \in 0..(MaxCells - 1) :
          CanNav /\ Firebase /\ handleCellClick(c, i)
    \/ \E c \in Clients, d \in NavFiles, b \in BOOLEAN :
          CanNav /\ Firebase /\ importFromJSON(c, d, b)
    \/ \E c \in Clients : Firebase /\ ValueListener(c)
    \/ \E c \in Clients : CanNav /\ exportCurrentEntry(c)
    \/ \E c \in Clients, b \in CoordInputs, t \in CoordInputs :
          CanNav /\ Gun /\ cycleDeviceByCoordsGun(c, b, t)
    \/ \E c \in Clients, i \in 0..(MaxCells - 1) :
          CanNav /\ Gun /\ handleCellClickGun(c, i)
    \/ \E c \in Clients : Gun /\ MapListener(c)
    \/ \E c \in Clients : StoreApply(c)

SpecNav == InitNav /\ [][NextNav]_vars

(* ------------------------- names and their keys -------------------------- *)

\* Number of handlers that run to completion in this scenario.
MaxKeyOps == 1

CanKey == now < MaxKeyOps

\* Characters typed into the entryName field: letters, a digit, the dash
\* and the underscore, the five characters the hosted store forbids, a
\* slash and a blank.
KeyAlphabet == {"a", "Z", "9", "-", "_", ".", "#", "$", "[", "]", "/", " "}

\* The texts typed: every single character, and every forbidden character
\* followed by a letter, a digit, a forbidden character or a slash.
KeyNames ==
    {<<x>> : x \in KeyAlphabet}
       \cup {<<x, y>> : x \in ProhibitedChars, y \in {"a", "9", "#", "/"}}

\* The user of client A creates entries on an empty store; the puts stay
\* in flight.
NextKey ==
    \/ \E n \in KeyNames, size \in ArraySizes :
          CanKey /\ Firebase /\ createNewEntry("A", n, size)
    \/ \E n \in KeyNames, size \in ArraySizes :
          CanKey /\ Gun /\ createNewEntryGun("A", n, size)

SpecKey == Init /\ [][NextKey]_vars

(* ------------------- cell selection and the keyboard -------------------- *)

\* Number of handlers that run to completion in this scenario.
MaxSelectOps == 2

CanSelect == now < MaxSelectOps

\* The keys pressed: the four arrows, the space bar and a letter.
KeyInputs == {"ArrowUp", "ArrowDown", "ArrowLeft", "ArrowRight", " ", "x"}

\* selectCell (src/script.js:588-604) as the focus listener of a rendered
\* cell calls it (line 295).
selectCell(c, index) ==
    /\ currentEntry[c] # Null
    /\ index \in 0..(gridCells[c] - 1)
    /\ selectedCellIndex' = [selectedCellIndex EXCEPT ![c] = index]
    /\ lastOp' = [op |-> "select", client |-> c, ok |-> TRUE, index |-> index, why |-> ""]
    /\ streak' = NoStreak
    /\ UNCHANGED <<variant, remote, outbox, inbox, entriesRef, entries, currentEntry,
                   alias, gridCells, selector, isUpdating, putCalls, cellCycles,
                   otherWrites, edit, lastWriter, connected, downloads, origin, now,
                   storage>>

\* The click listener of a rendered cell (src/script.js:288-291): the cell
\* is the selected one when handleCellClick runs.
cellClick(c, index) ==
    /\ selectedCellIndex[c] = index
    /\ handleCellClick(c, index)

\* The index an arrow key moves the selection to (src/script.js:619-637).
ArrowTarget(selected, size, key) ==
    LET row == selected \div size
        col == selected % size IN
    IF key = "ArrowUp" /\ row > 0 THEN selected - size
    ELSE IF key = "ArrowDown" /\ row < size - 1 THEN selected + size
    ELSE IF key = "ArrowLeft" /\ col > 0 THEN selected - 1
    ELSE IF key = "ArrowRight" /\ col < size - 1 THEN selected + 1
    ELSE selected

\* The end of a space key press that cycled the cell index of cur; why
\* tells how handleCellClick ended.
CycledByKey(c, index, cur, why) ==
    /\ lastOp' = [op |-> "space", client |-> c, ok |-> TRUE, index |-> index, why |-> why]
    /\ streak' = NoStreak
    /\ edit' = [edit EXCEPT ![c] = [index |-> index, name |-> cur.name,
                                     before |-> cur.measurements]]
    /\ now' = now + 1
    /\ UNCHANGED <<variant, lastWriter, connected, downloads, origin, storage,
                   selectedCellIndex>>

\* handleArrowKeyNavigation (src/script.js:610-652), the keydown listener of
\* the document, with handleCellClick (322-339) for the space bar.  When
\* the selected index has no rendered cell, handleCellClick throws at
\* updateCellAppearance (line 335) after it changed the entry and before
\* saveEntry.
handleArrowKeyNavigation(c, key) ==
    IF currentEntry[c] = Null \/ selectedCellIndex[c] = NoCell
    THEN Rejected(c, "key", "idle")
    ELSE IF key \notin {"ArrowUp", "ArrowDown", "ArrowLeft", "ArrowRight", " "}
    THEN Rejected(c, "key", "other")
    ELSE IF key = " "
    THEN LET index == selectedCellIndex[c]
             cur == currentEntry[c]
             mutated == CycledEntry(cur, index) IN
         IF isUpdating[c]
         THEN Rejected(c, "space", "updating")
         ELSE /\ cellCycles' = [cellCycles EXCEPT ![c] = @ + 1]
              /\ IF index >= gridCells[c]
                 THEN /\ currentEntry' = [currentEntry EXCEPT ![c] = mutated]
                      /\ entries' = [entries EXCEPT ![c] = EntriesAfterMutation(c, mutated)]
                      /\ CycledByKey(c, index, cur, "no cell")
                      /\ UNCHANGED <<outbox, putCalls>>
                 ELSE LET saved == EntryAfterSave(c, mutated) IN
                      /\ currentEntry' = [currentEntry EXCEPT ![c] = saved]
                      /\ entries' = [entries EXCEPT ![c] = EntriesAfterMutation(c, saved)]
                      /\ outbox' = [outbox EXCEPT ![c] = OutboxAfterSave(c, mutated)]
                      /\ putCalls' = [putCalls EXCEPT ![c] = PutCallsAfterSave(c)]
                      /\ CycledByKey(c, index, cur, "")
              /\ UNCHANGED <<remote, inbox, entriesRef, alias, gridCells, selector,
                             isUpdating, otherWrites>>
    ELSE /\ selectedCellIndex' = [selectedCellIndex EXCEPT ![c] =
                ArrowTarget(selectedCellIndex[c], currentEntry[c].size, key)]
         /\ lastOp' = [op |-> "key", client |-> c, ok |-> TRUE,
                       index |-> selectedCellIndex[c], why |-> key]
         /\ streak' = NoStreak
         /\ UNCHANGED <<variant, remote, outbox, inbox, entriesRef, entries, currentEntry,
                        alias, gridCells, selector, isUpdating, putCalls, cellCycles,
                        otherWrites, edit, lastWriter, connected, downloads, origin, now,
                        storage>>

\* A deployment of the hosted-store script in use: the store holds both
\* entries; client A loaded the shared entry, client B none yet.
InitSelect == InitNav /\ variant = "firebase"

NextSelect ==
    \/ \E c \in Clients, i \in 0..(MaxCells - 1) : selectCell(c, i)
    \/ \E c \in Clients, k \in KeyInputs : CanSelect /\ handleArrowKeyNavigation(c, k)
    \/ \E c \in Clients, i \in 0..(MaxCells - 1) : CanSelect /\ cellClick(c, i)
    \/ \E c \in Clients, k \in 1..Len(AllKeys) : CanSelect /\ loadSelectedEntry(c, k)
    \/ \E c \in Clients, d \in NavFiles, b \in BOOLEAN :
          CanSelect /\ importFromJSON(c, d, b)
    \/ \E c \in Clients : ValueListener(c)
    \/ \E c \in Clients : StoreApply(c)

SpecSelect == InitSelect /\ [][NextSelect]_vars

(* ---------------------- names that share a key -------------------------- *)

\* Number of handlers that run to completion in this scenario.
MaxTwinOps == 2

CanTwin == now < MaxTwinOps

\* Names typed into the entryName field: the stored entries' names and a
\* name that differs from both and has the key of OtherEntry.
TwinNames == { <<"w">>, <<"a", ".">>, <<"a", "_">> }

\* A file on the users' disks: an export of an entry named a_.
TwinFiles ==
    { [name |-> <<"a", "_">>, size |-> 1, createdAt |-> 0,
       measurements |-> [raw |-> <<1>>]] }

NextTwin ==
    \/ \E c \in Clients, n \in TwinNames, size \in ArraySizes :
          CanTwin /\ Firebase /\ createNewEntry(c, n, size)
    \/ \E c \in Clients, d \in TwinFiles, b \in BOOLEAN :
          CanTwin /\ Firebase /\ importFromJSON(c, d, b)
    \/ \E c \in Clients : Firebase /\ ValueListener(c)
    \/ \E c \in Clients, n \in TwinNames, size \in ArraySizes :
          CanTwin /\ Gun /\ createNewEntryGun(c, n, size)
    \/ \E c \in Clients : Gun /\ MapListener(c)
    \/ \E c \in Clients : StoreApply(c)

SpecTwin == InitLoaded /\ [][NextTwin]_vars

(* ------------------ a file whose raw is not an array --------------------- *)

\* Number of handlers that run to completion in this scenario.
MaxGuardOps == 2

CanGuard == now < MaxGuardOps

\* Files on the users' disks: an export of the shared entry, a document
\* of the same name whose measurements.raw is the number 5, and a document
\* of an entry of 3 x 3 cells, a size the arraySize selector does not offer.
GuardFiles ==
    { [name |-> <<"w">>, size |-> 2, createdAt |-> 0,
       measurements |-> [raw |-> <<3, 2, 1, 0>>]],
      [name |-> <<"w">>, size |-> 2, createdAt |-> 0,
       measurements |-> [raw |-> Scalar]],
      [name |-> <<"a", ".">>, size |-> 3, createdAt |-> 0,
       measurements |-> [raw |-> <<0, 0, 0, 0, 1, 0, 0, 0, 0>>]] }

NextGuard ==
    \/ \E c \in Clients, d \in GuardFiles, b \in BOOLEAN :
          CanGuard /\ Firebase /\ importFromJSON(c, d, b)
    \/ \E c \in Clients, i \in 0..(MaxCells - 1) :
          CanGuard /\ Firebase /\ handleCellClick(c, i)
    \/ \E c \in Clients : Firebase /\ ValueListener(c)
    \/ \E c \in Clients, i \in 0..(MaxCells - 1) :
          CanGuard /\ Gun /\ handleCellClickGun(c, i)
    \/ \E c \in Clients : Gun /\ MapListener(c)
    \/ \E c \in Clients : StoreApply(c)

SpecGuard == InitImport /\ [][NextGuard]_vars

(* ---------- local-storage script (src/script.js, lines 978-1286) --------- *)

\* Number of handlers that run to completion in the local-only scenario.
MaxLocalOps == 3

CanActLocal == now < MaxLocalOps

\* The browsers whose user works; each browser has a localStorage of its own.
LocalUsers == {"A"}

Local == variant = "local"

\* A page of the local-storage script just opened in a browser that never
\* ran it: no item is stored, entries is empty (src/script.js:978-988).
InitLocal ==
    /\ variant = "local"
    /\ InitFresh
    /\ outbox = [c \in Clients |-> <<>>]
    /\ inbox = [c \in Clients |-> <<>>]
    /\ entriesRef = [c \in Clients |-> FALSE]
    /\ isUpdating = [c \in Clients |-> FALSE]
    /\ putCalls = [c \in Clients |-> 0]
    /\ cellCycles = [c \in Clients |-> 0]
    /\ otherWrites = [c \in Clients |-> 0]
    /\ lastOp = NoOp
    /\ streak = NoStreak
    /\ edit = [c \in Clients |-> NoEdit]
    /\ lastWriter = "none"
    /\ connected = [c \in Clients |-> FALSE]
    /\ downloads = [c \in Clients |-> <<>>]
    /\ origin = [c \in Clients |-> Null]
    /\ storage = [c \in Clients |-> Null]
    /\ selectedCellIndex = [c \in Clients |-> NoCell]
    /\ now = 0

\* The object createNewEntry builds (src/script.js:1010-1015): it has no
\* lastModified.
NewEntryLocal(name, size) ==
    [name |-> name, size |-> size, createdAt |-> Today,
     measurements |-> ArrayFill(size * size, 0)]

\* JSON.parse(JSON.stringify(entries)): what a stored item reads back as.
JsonEntries(arr) ==
    [k \in 1..Len(arr) |->
        LET m == arr[k].measurements IN
        [arr[k] EXCEPT !.measurements = [i \in 1..Len(m) |-> JsonValue(m[i])]]]

\* loadEntriesFromStorage (src/script.js:1281-1286) on a page whose entries
\* array is still empty.
loadEntriesFromStorage(c) == IF storage[c] # Null THEN storage[c].item ELSE <<>>

\* The end of a handler that called saveEntriesToStorage
\* (src/script.js:1276-1278) on the entries array arr.
Persisted(c, op, index, arr) ==
    /\ storage' = [storage EXCEPT ![c] = [item |-> JsonEntries(arr)]]
    /\ lastOp' = [op |-> op, client |-> c, ok |-> TRUE, index |-> index, why |-> ""]
    /\ streak' = NoStreak
    /\ edit' = [edit EXCEPT ![c] = NoEdit]
    /\ now' = now + 1
    /\ UNCHANGED <<variant, remote, outbox, inbox, entriesRef, isUpdating, putCalls,
                   lastWriter, connected, downloads, origin, selectedCellIndex>>

\* createNewEntry (src/script.js:999-1024)
createNewEntryLocal(c, rawName, size) ==
    LET name == Trim(rawName) IN
    IF name = <<>>
    THEN Rejected(c, "create", "empty")
    ELSE IF HasName(entries[c], name)
    THEN Rejected(c, "create", "duplicate")
    ELSE LET entry == NewEntryLocal(name, size)
             arr == Append(entries[c], entry) IN
         /\ entries' = [entries EXCEPT ![c] = arr]
         /\ selector' = [selector EXCEPT ![c] = NamesOf(arr)]
         /\ currentEntry' = [currentEntry EXCEPT ![c] = entry]
         /\ alias' = [alias EXCEPT ![c] = Len(arr)]
         /\ gridCells' = [gridCells EXCEPT ![c] = size * size]
         /\ otherWrites' = [otherWrites EXCEPT ![c] = @ + 1]
         /\ Persisted(c, "create", 0 - 1, arr)
         /\ UNCHANGED cellCycles

\* deleteSelectedEntry (src/script.js:1047-1069)
deleteSelectedEntryLocal(c, k, confirmed) ==
    /\ IF selector[c] = <<>> THEN k = 0 ELSE k \in 1..Len(selector[c])
    /\ IF k = 0
       THEN Rejected(c, "delete", "empty")
       ELSE IF ~confirmed
       THEN Rejected(c, "delete", "unconfirmed")
       ELSE LET selectedName == selector[c][k]
                kept == FilterOut(entries[c], selectedName) IN
            /\ entries' = [entries EXCEPT ![c] = kept]
            /\ selector' = [selector EXCEPT ![c] = NamesOf(kept)]
            /\ IF currentEntry[c] # Null /\ currentEntry[c].name = selectedName
               THEN /\ currentEntry' = [currentEntry EXCEPT ![c] = Null]
                    /\ alias' = [alias EXCEPT ![c] = 0]
               ELSE /\ UNCHANGED currentEntry
                    /\ alias' = [alias EXCEPT ![c] =
                          Len(FilterOut(SubSeq(entries[c], 1, @), selectedName))]
            /\ Persisted(c, "delete", 0 - 1, kept)
            /\ UNCHANGED <<gridCells, cellCycles, otherWrites>>

\* currentEntry's object after handleCellClick (src/script.js:1119).
CycledEntryLocal(cur, index) ==
    [cur EXCEPT !.measurements = ArraySet(cur.measurements, index,
                                     NextState(ArrayGet(cur.measurements, index)))]

\* A cell cycle that leaves the stored item as it was.
handleCellClickLocalUnsaved(c, index) ==
    /\ currentEntry[c] # Null
    /\ index \in 0..(gridCells[c] - 1)
    /\ LET mutated == CycledEntryLocal(currentEntry[c], index) IN
       /\ currentEntry' = [currentEntry EXCEPT ![c] = mutated]
       /\ entries' = [entries EXCEPT ![c] = EntriesAfterMutation(c, mutated)]
       /\ cellCycles' = [cellCycles EXCEPT ![c] = @ + 1]
       /\ Cycled(c, index, currentEntry[c])
       /\ UNCHANGED <<remote, outbox, inbox, entriesRef, alias, gridCells, selector,
                      isUpdating, putCalls, otherWrites>>

\* handleCellClick (src/script.js:1117-1130) on a rendered cell
handleCellClickLocal(c, index) ==
    /\ currentEntry[c] # Null
    /\ index \in 0..(gridCells[c] - 1)
    /\ LET mutated == CycledEntryLocal(currentEntry[c], index)
           arr == EntriesAfterMutation(c, mutated) IN
       /\ currentEntry' = [currentEntry EXCEPT ![c] = mutated]
       /\ entries' = [entries EXCEPT ![c] = arr]
       /\ cellCycles' = [cellCycles EXCEPT ![c] = @ + 1]
       /\ Persisted(c, "click", index, arr)
       /\ UNCHANGED <<alias, gridCells, selector, otherWrites>>

\* clearAllMeasurements (src/script.js:1262-1273)
clearAllMeasurementsLocal(c, confirmed) ==
    IF currentEntry[c] = Null
    THEN Rejected(c, "clear", "empty")
    ELSE IF ~confirmed
    THEN Rejected(c, "clear", "unconfirmed")
    ELSE LET cur == currentEntry[c]
             cleared == [cur EXCEPT !.measurements = ArrayFill(cur.size * cur.size, 0)]
             arr == EntriesAfterMutation(c, cleared) IN
         /\ currentEntry' = [currentEntry EXCEPT ![c] = cleared]
         /\ entries' = [entries EXCEPT ![c] = arr]
         /\ gridCells' = [gridCells EXCEPT ![c] = cur.size * cur.size]
         /\ otherWrites' = [otherWrites EXCEPT ![c] = @ + 1]
         /\ Persisted(c, "clear", 0 - 1, arr)
         /\ UNCHANGED <<alias, selector, cellCycles>>

\* The user reloads the page: the module state starts over and the
\* DOMContentLoaded handler (src/script.js:983-987) reads the stored item.
Restart(c) ==
    /\ entries' = [entries EXCEPT ![c] = loadEntriesFromStorage(c)]
    /\ selector' = [selector EXCEPT ![c] = NamesOf(loadEntriesFromStorage(c))]
    /\ currentEntry' = [currentEntry EXCEPT ![c] = Null]
    /\ alias' = [alias EXCEPT ![c] = 0]
    /\ gridCells' = [gridCells EXCEPT ![c] = 0]
    /\ lastOp' = [op |-> "restart", client |-> c, ok |-> TRUE, index |-> 0 - 1,
                  why |-> ""]
    /\ streak' = NoStreak
    /\ edit' = [edit EXCEPT ![c] = NoEdit]
    /\ UNCHANGED <<variant, remote, outbox, inbox, entriesRef, isUpdating, putCalls,
                   cellCycles, otherWrites, lastWriter, connected, downloads, origin,
                   storage, selectedCellIndex, now>>

NextLocal ==
    \/ \E c \in LocalUsers, n \in NameInputs, s \in ArraySizes :
          CanActLocal /\ createNewEntryLocal(c, n, s)
    \/ \E c \in LocalUsers, k \in 1..Len(AllKeys) :
          CanActLocal /\ loadSelectedEntry(c, k)
    \/ \E c \in LocalUsers, k \in 0..Len(AllKeys), b \in BOOLEAN :
          CanActLocal /\ deleteSelectedEntryLocal(c, k, b)
    \/ \E c \in LocalUsers, i \in 0..(MaxCells - 1) :
          CanActLocal /\ handleCellClickLocal(c, i)
    \/ \E c \in LocalUsers, b \in BOOLEAN :
          CanActLocal /\ clearAllMeasurementsLocal(c, b)
    \/ \E c \in LocalUsers : Restart(c)

SpecLocal == InitLocal /\ [][NextLocal]_vars

(* ============================== properties ============================== *)

NoWriteLoop == <>[]Quiescent

\* C2 happens: both clients show the same entry, both cycled a cell of it,
\* and every write and notification has been processed.
NoWriteLoopWitness ==
    /\ Quiescent
    /\ \A c \in Clients : currentEntry[c] # Null /\ cellCycles[c] = 1
    /\ currentEntry["A"].name = currentEntry["B"].name

\* The key a deployment stores an entry of this name under.
KeyOf(name) == IF Firebase THEN SanitizeName(name) ELSE sanitizeKey(name)

\* The entries the store holds.
Stored == {remote[k] : k \in {j \in Keys : remote[j] # Null}}

\* The entries a client's local mapping holds.
Held(c) == {entries[c][k] : k \in 1..Len(entries[c])}

\* C3: convergence.  When no put is in flight and no notification is
\* undelivered, every client's local mapping holds exactly the store's
\* entries, and its active entry has the cells of the store's entry of that
\* name.
Converged ==
    Quiescent =>
        \A c \in Clients :
            /\ Held(c) = Stored
            /\ currentEntry[c] # Null /\ remote[KeyOf(currentEntry[c].name)] # Null
                   => currentEntry[c].measurements
                         = remote[KeyOf(currentEntry[c].name)].measurements

\* C5: delete propagation.  Once a delete's tombstone has reached every
\* client (nothing is in flight and the store holds no entry under the
\* key), no client's local mapping holds an entry of that name and no
\* client has it as its active entry.
DeletePropagated ==
    Quiescent =>
        \A k \in Keys : remote[k] = Null =>
            \A c \in Clients :
                /\ \A i \in 1..Len(entries[c]) : KeyOf(entries[c][i].name) # k
                /\ currentEntry[c] = Null \/ KeyOf(currentEntry[c].name) # k

\* Both clients cycled a cell of the same version of the same entry, each
\* a different cell, and neither ran another handler since.
ConcurrentCycles ==
    /\ \A c \in Clients : edit[c] # NoEdit
    /\ edit["A"].name = edit["B"].name
    /\ edit["A"].before = edit["B"].before
    /\ edit["A"].index # edit["B"].index
    /\ \A c \in Clients : edit[c].index < Len(edit[c].before)

\* The cells a client's put carried: the version it started from with the
\* cell it cycled advanced.
EditedCells(c) ==
    ArraySet(edit[c].before, edit[c].index,
             NextState(ArrayGet(edit[c].before, edit[c].index)))

\* C4: entry-level last-writer-wins.  After two clients cycled different
\* cells of the same version and everything was delivered, the store and
\* every client hold the whole cells array of the put that arrived last:
\* the cell the earlier put cycled is back at its value before the edit.
LastWriterWins ==
    Quiescent /\ ConcurrentCycles /\ lastWriter \in Clients =>
        LET name == edit[lastWriter].name
            last == EditedCells(lastWriter) IN
        /\ remote[KeyOf(name)] # Null
        /\ remote[KeyOf(name)].measurements = last
        /\ \A c \in Clients :
              /\ currentEntry[c] # Null /\ currentEntry[c].name = name
                    => currentEntry[c].measurements = last
              /\ \A i \in 1..Len(entries[c]) :
                    entries[c][i].name = name => entries[c][i].measurements = last
              /\ c # lastWriter =>
                    /\ ArrayGet(last, edit[c].index)
                          = ArrayGet(edit[c].before, edit[c].index)
                    /\ ArrayGet(last, edit[c].index)
                          # ArrayGet(EditedCells(c), edit[c].index)

\* C4 happens: both clients cycled different cells of the same version,
\* both puts reached the store and every notification was delivered.
LastWriterWinsWitness ==
    /\ Quiescent
    /\ ConcurrentCycles
    /\ lastWriter \in Clients
    /\ \A c \in Clients : currentEntry[c] # Null /\ currentEntry[c].name = edit[c].name

\* The names entries of the store carry.
StoredNames == {e.name : e \in Stored}

\* A step is a create of this client with this input, in either script.
CreateStep(c, rawName, size) ==
    \/ Firebase /\ createNewEntry(c, rawName, size)
    \/ Gun /\ createNewEntryGun(c, rawName, size)

\* C6: a create whose name is empty after trimming, or is the name of an
\* entry of the client's local mapping, leaves the local mapping, the
\* active entry and the store unchanged and issues no put; and the store
\* never holds two entries of one name, however many creates named it.
RejectedCreateChangesNothing ==
    /\ [][\A c \in Clients, n \in NameInputs, size \in ArraySizes :
            /\ lastOp'.op = "create" /\ lastOp'.client = c
            /\ CreateStep(c, n, size)
            /\ Trim(n) = <<>> \/ HasName(entries[c], Trim(n))
            => UNCHANGED <<remote, outbox, inbox, entries, currentEntry, alias,
                           gridCells, selector, putCalls>>]_vars
    /\ [](\A j, k \in Keys :
            remote[j] # Null /\ remote[k] # Null /\ remote[j].name = remote[k].name
               => j = k)

\* C6 happens: a create was turned down for naming an entry the client
\* already holds, and the store holds that one entry.
RejectedCreateWitness ==
    /\ lastOp.op = "create" /\ ~lastOp.ok /\ lastOp.why = "duplicate"
    /\ StoredNames # {}
    /\ StoredNames \subseteq {entries[lastOp.client][i].name :
                                  i \in 1..Len(entries[lastOp.client])}

\* A step is a cell cycle of this client on this rendered cell, in either script.
ClickStep(c, index) ==
    \/ Firebase /\ handleCellClick(c, index)
    \/ Gun /\ handleCellClickGun(c, index)

\* C7: a cell cycle on index i of the active entry sets cells[i] to
\* (cells[i] + 1) mod 4 and leaves every other cell, the entry's name, size
\* and createdAt, and every other entry of the mapping unchanged.
CellCycleFrame ==
    [][\A c \in Clients, i \in 0..(MaxCells - 1) :
          /\ lastOp'.op = "click" /\ lastOp'.client = c /\ lastOp'.ok
          /\ ClickStep(c, i)
          /\ i < Len(currentEntry[c].measurements)
          /\ currentEntry[c].measurements[i + 1] >= 0
          => /\ currentEntry'[c].measurements
                   = [currentEntry[c].measurements EXCEPT ![i + 1] = (@ + 1) % 4]
             /\ currentEntry'[c].name = currentEntry[c].name
             /\ currentEntry'[c].size = currentEntry[c].size
             /\ currentEntry'[c].createdAt = currentEntry[c].createdAt
             /\ \A j \in 1..Len(entries[c]) :
                   entries[c][j].name # currentEntry[c].name
                      => j <= Len(entries'[c]) /\ entries'[c][j] = entries[c][j]
             /\ \A j \in 1..Len(entries'[c]) :
                   entries'[c][j].name # currentEntry[c].name
                      => j <= Len(entries[c]) /\ entries'[c][j] = entries[c][j]]_vars

\* C7 happens: a client holding two entries cycled a cell of the active one
\* from state 3, which is now 0.
CellCycleFrameWitness ==
    /\ lastOp.op = "click" /\ lastOp.ok
    /\ Len(entries[lastOp.client]) = 2
    /\ ArrayGet(edit[lastOp.client].before, lastOp.index) = 3
    /\ ArrayGet(currentEntry[lastOp.client].measurements, lastOp.index) = 0

\* C8: the cycle has length four.  After k consecutive cycles of one cell
\* that was in state s, nothing else happening in between, the cell is in
\* state (s + k) mod 4; three cycles take a cell from 0 to 3.
CycleOfFour ==
    streak.count > 0 /\ streak.start \in 0..3 =>
        /\ lastOp.op = "click" /\ lastOp.ok
        /\ ArrayGet(currentEntry[lastOp.client].measurements, lastOp.index)
              = (streak.start + streak.count) % 4
        /\ streak.start = 0 /\ streak.count = 3
              => ArrayGet(currentEntry[lastOp.client].measurements, lastOp.index) = 3

\* C8 happens: four cycles in a row brought a cell back to the state it
\* started from.
CycleOfFourWitness ==
    /\ streak.count = 4
    /\ ArrayGet(currentEntry[lastOp.client].measurements, lastOp.index) = streak.start

\* Every entry some part of the system holds.
AllEntries ==
    Stored \cup UNION {Held(c) : c \in Clients}
           \cup {currentEntry[c] : c \in {d \in Clients : currentEntry[d] # Null}}

\* C9: grid shape.  Every entry, in the store or at a client, has exactly
\* size * size cells, each one of the states 0..3.
GridShape ==
    \A e \in AllEntries :
        /\ Len(e.measurements) = e.size * e.size
        /\ \A k \in 1..Len(e.measurements) : e.measurements[k] \in 0..3

\* C10: size is immutable.  While the store holds an entry of a name, no
\* write changes the size stored under that name.
SizeImmutable ==
    [][\A k \in Keys :
          remote[k] # Null /\ remote'[k] # Null /\ remote'[k].name = remote[k].name
             => remote'[k].size = remote[k].size]_vars

\* C11: name uniqueness.  No client's local mapping holds two entries of
\* one name, and the store never holds two entries of one name under
\* different keys.
NameUnique ==
    /\ \A c \in Clients : \A i, j \in 1..Len(entries[c]) :
          entries[c][i].name = entries[c][j].name => i = j
    /\ Cardinality(StoredNames) = Cardinality({k \in Keys : remote[k] # Null})

\* C11 happens: the store holds two entries, and a client that issued puts
\* holds two entries too and has processed every notification sent to it.
NameUniqueWitness ==
    /\ Cardinality(Stored) = 2
    /\ \E c \in Clients : Len(entries[c]) = 2 /\ putCalls[c] > 0 /\ inbox[c] = <<>>

\* C12: successful create.  A create with a name that is not empty after
\* trimming and not in the client's local mapping makes an entry of
\* size * size cells, all 0, the active entry, registers it in the local
\* mapping, and issues exactly one put of it under the sanitized name.
SuccessfulCreate ==
    [][\A c \in Clients, n \in NameInputs, size \in ArraySizes :
          /\ lastOp'.op = "create" /\ lastOp'.client = c
          /\ CreateStep(c, n, size)
          /\ Trim(n) # <<>> /\ ~HasName(entries[c], Trim(n))
          => /\ currentEntry'[c] # Null
             /\ currentEntry'[c].name = Trim(n)
             /\ currentEntry'[c].size = size
             /\ currentEntry'[c].measurements = ArrayFill(size * size, 0)
             /\ HasName(entries'[c], Trim(n))
             /\ putCalls'[c] = putCalls[c] + 1
             /\ outbox'[c] = Append(outbox[c], [key |-> KeyOf(Trim(n)),
                                                value |-> currentEntry'[c]])]_vars

\* C13: no rollback on push failure.  When the store turns a client's write
\* down, the client's local mapping and active entry stay as the optimistic
\* mutation left them; a client's local mapping or active entry changes only
\* in a handler of its own that ran to its end or in its listener processing
\* a notification.
NoRollback ==
    [][\A c \in Clients :
          /\ lastOp'.op = "reject" /\ lastOp'.client = c
                => entries'[c] = entries[c] /\ currentEntry'[c] = currentEntry[c]
          /\ entries'[c] # entries[c] \/ currentEntry'[c] # currentEntry[c]
                => \/ lastOp'.client = c /\ lastOp'.ok
                         /\ lastOp'.op \in {"click", "clear"}
                   \/ inbox[c] # <<>> /\ inbox'[c] = Tail(inbox[c])]_vars

\* C13 happens: the store has just turned down a write of a client that
\* changed its active entry, and the client still shows cells the store
\* does not hold.
NoRollbackWitness ==
    /\ lastOp.op = "reject"
    /\ cellCycles[lastOp.client] + otherWrites[lastOp.client] > 0
    /\ remote[KeyOf(currentEntry[lastOp.client].name)] # Null
    /\ remote[KeyOf(currentEntry[lastOp.client].name)].measurements
           # currentEntry[lastOp.client].measurements

\* C14: offline-first.  Whatever the connection state of a client
\* (connected, disconnected, store not initialised), a cell cycle of it
\* sets the cell of its active entry to the next state at once and a
\* confirmed clear-all sets every cell to 0 at once; a change of the
\* connection state changes neither the local mapping nor the active entry.
OfflineFirst ==
    [][\A c \in Clients :
          /\ \A i \in CycledCells :
                lastOp'.op = "click" /\ lastOp'.client = c /\ ClickStep(c, i)
                   => /\ lastOp'.ok
                      /\ ArrayGet(currentEntry'[c].measurements, i)
                            = (ArrayGet(currentEntry[c].measurements, i) + 1) % 4
          /\ lastOp'.op = "clear" /\ lastOp'.client = c /\ lastOp'.why # "unconfirmed"
                => /\ lastOp'.ok
                   /\ \A k \in 1..Len(currentEntry'[c].measurements) :
                         currentEntry'[c].measurements[k] = 0
          /\ lastOp'.op = "connection"
                => entries' = entries /\ currentEntry' = currentEntry]_vars

\* C14 happens: a client that is disconnected from its store has just
\* cycled a cell, which changed, while another client, whose store is not
\* initialised, has cleared its entry.
OfflineFirstWitness ==
    /\ lastOp.op = "click" /\ lastOp.ok
    /\ entriesRef[lastOp.client] /\ ~connected[lastOp.client]
    /\ currentEntry[lastOp.client].measurements # edit[lastOp.client].before
    /\ \E d \in Clients : ~entriesRef[d] /\ otherWrites[d] > 0

\* The document is no JSON, or lacks name, size, measurements or
\* measurements.raw.
Lacking(d) ==
    \/ "parseError" \in DOMAIN d
    \/ "name" \notin DOMAIN d
    \/ "size" \notin DOMAIN d
    \/ "measurements" \notin DOMAIN d
    \/ "raw" \notin DOMAIN d.measurements

\* C15: invalid import changes nothing.  Importing a document that cannot
\* be parsed or that lacks name, size, measurements or measurements.raw
\* leaves the client's local mapping, its active entry and the store
\* unchanged and issues no put.
InvalidImportChangesNothing ==
    [][\A c \in Clients, b \in BOOLEAN : \A d \in FilesOf(c) :
          /\ lastOp'.op = "import" /\ lastOp'.client = c
          /\ Lacking(d)
          /\ importFromJSON(c, d, b)
          => UNCHANGED <<remote, outbox, inbox, entries, currentEntry, alias,
                         gridCells, selector, putCalls>>]_vars

\* C15 happens: a client that cycled cells of its active entry has just
\* imported a document lacking a field, and still shows the entry.
InvalidImportWitness ==
    /\ lastOp.op = "import" /\ ~lastOp.ok /\ lastOp.why = "invalid"
    /\ cellCycles[lastOp.client] > 0
    /\ currentEntry[lastOp.client] # Null

DeleteStep(c, k, confirmed) ==
    \/ Firebase /\ deleteSelectedEntry(c, k, confirmed)
    \/ Gun /\ deleteSelectedEntryGun(c, k, confirmed)

\* The writes handed to the store and not yet applied.
Pending == UNION {{outbox[c][k] : k \in 1..Len(outbox[c])} : c \in Clients}

\* C17: key consistency.  Every save of an entry (create, cycle, clear,
\* import) is written under one key per name, the store holds every entry
\* under that key, and a delete of a name addresses exactly that key: no
\* entry of the deleted name is stored or on its way under another key.
KeyConsistent ==
    /\ [](/\ \A p, q \in {w \in Pending : w.value # Null} :
               p.value.name = q.value.name => p.key = q.key
          /\ \A k \in Keys : \A p \in {w \in Pending : w.value # Null} :
               remote[k] # Null /\ remote[k].name = p.value.name => p.key = k)
    /\ [][\A c \in Clients, k \in 1..Len(AllKeys) :
            /\ lastOp'.op = "delete" /\ lastOp'.client = c /\ lastOp'.ok
            /\ DeleteStep(c, k, TRUE)
            => LET w == outbox'[c][Len(outbox'[c])]
                   n == selector[c][k] IN
               /\ w.value = Null
               /\ w.key \in Keys
               /\ \A j \in Keys : remote[j] # Null /\ remote[j].name = n => j = w.key
               /\ \A p \in Pending : p.value # Null /\ p.value.name = n
                                        => p.key = w.key]_vars

\* C17 happens: a client saved an entry whose name differs from its key
\* and still lists it, its write was the last the store applied, and the
\* store, having applied every write, holds no entry any more: the removal
\* reached the key of the save.
KeyConsistentWitness ==
    /\ \E c \in Clients :
          /\ putCalls[c] > 0 /\ lastWriter = c
          /\ \E k \in 1..Len(entries[c]) : entries[c][k].name # KeyOf(entries[c][k].name)
    /\ Pending = {}
    /\ Stored = {}

\* The files the clients exported so far.
Exported == UNION {{downloads[c][k] : k \in 1..Len(downloads[c])} : c \in Clients}

\* C18: export statistics are consistent.  In every exported document the
\* four counts add up to statistics.total, and that is size * size.
StatisticsConsistent ==
    \A f \in Exported :
        /\ f.statistics.successful + f.statistics.failed + f.statistics.misaligned
              + f.statistics.unmeasured = f.statistics.total
        /\ f.statistics.total = f.size * f.size

\* The pair is in the coordinate list.
Listed(list, pair) == \E k \in 1..Len(list) : list[k] = pair

\* The list holds pairs of ascending linear index.
Ascending(list, size) ==
    \A j, k \in 1..Len(list) :
        j < k => list[j][1] * size + list[j][2] < list[k][1] * size + list[k][2]

\* C19: the coordinate lists partition the measured cells.  In every
\* exported document each linear index i of the grid is listed, as
\* (i div size, i mod size), in successfulDevices, failedDevices or
\* misalignedDevices exactly when its state is 1, 2 or 3, and in none of
\* them exactly when its state is 0; every list is in ascending order of
\* linear index.
DevicesPartition ==
    \A f \in Exported :
        /\ \A i \in 0..(f.size * f.size - 1) :
              LET state == ArrayGet(f.measurements.raw, i)
                  pair == <<i \div f.size, i % f.size>> IN
              /\ Listed(f.successfulDevices, pair) <=> state = 1
              /\ Listed(f.failedDevices, pair) <=> state = 2
              /\ Listed(f.misalignedDevices, pair) <=> state = 3
              /\ state = 0 <=> /\ ~Listed(f.successfulDevices, pair)
                               /\ ~Listed(f.failedDevices, pair)
                               /\ ~Listed(f.misalignedDevices, pair)
        /\ Ascending(f.successfulDevices, f.size)
        /\ Ascending(f.failedDevices, f.size)
        /\ Ascending(f.misalignedDevices, f.size)

\* The client's newest download.
LastFile(c) == downloads[c][Len(downloads[c])]

\* C20: export/import round trip.  Every exported document is accepted by
\* import, and exporting the entry import builds from it yields the same
\* raw, grid and statistics; a client that imports one of its downloads and
\* exports next downloads a document with the raw, grid and statistics of
\* the one it imported.
RoundTrip ==
    /\ [](\A f \in Exported :
            /\ ~InvalidFormat(f)
            /\ ExportData(ImportedEntry(f)).measurements = f.measurements
            /\ ExportData(ImportedEntry(f)).statistics = f.statistics)
    /\ [][\A c \in Clients :
            /\ lastOp.op = "import" /\ lastOp.ok /\ lastOp.client = c
            /\ lastOp'.op = "export" /\ lastOp'.ok /\ lastOp'.client = c
            /\ origin[c] \in Exported
            => /\ Len(downloads'[c]) = Len(downloads[c]) + 1
               /\ downloads'[c][Len(downloads'[c])].measurements
                     = origin[c].measurements
               /\ downloads'[c][Len(downloads'[c])].statistics
                     = origin[c].statistics]_vars

\* C20 happens: a client exported its active entry, imported the download
\* and has just exported again; the second download carries the raw and
\* grid of the first, with cells in states other than 0.
RoundTripWitness ==
    /\ lastOp.op = "export" /\ lastOp.ok
    /\ Len(downloads[lastOp.client]) = 2
    /\ origin[lastOp.client] = downloads[lastOp.client][1]
    /\ LastFile(lastOp.client).measurements = origin[lastOp.client].measurements
    /\ LastFile(lastOp.client).statistics.unmeasured
          < LastFile(lastOp.client).statistics.total

PersistedSnapshot ==
    /\ [](\A c \in Clients : loadEntriesFromStorage(c) = entries[c])
    /\ [][\A c \in Clients :
            lastOp'.op = "restart" /\ lastOp'.client = c
            => entries'[c] = entries[c]]_vars

\* C22 happens: the user created an entry, cycled a cell of it and has just
\* reloaded the page, which lists the entry with the cycled cell.
PersistedSnapshotWitness ==
    /\ lastOp.op = "restart"
    /\ currentEntry[lastOp.client] = Null
    /\ cellCycles[lastOp.client] > 0
    /\ \E k \in 1..Len(entries[lastOp.client]) :
          \E i \in 1..Len(entries[lastOp.client][k].measurements) :
             entries[lastOp.client][k].measurements[i] = 1

\* C23: a cell mutation that names no loaded entry or an index outside
\* 0..size*size-1 leaves the entry's cells, the local mapping and the store
\* unchanged and issues no put.
MutationGuarded ==
    [][\A c \in Clients, i \in 0..(MaxCells - 1) :
          /\ lastOp'.op = "click" /\ lastOp'.client = c
          /\ ClickStep(c, i)
          /\ \/ currentEntry[c] = Null
             \/ i >= currentEntry[c].size * currentEntry[c].size
          => UNCHANGED <<entries, currentEntry, remote, outbox, putCalls>>]_vars

\* C24: local delete.  A confirmed delete of a selected entry removes the
\* entry from the deleting client's local mapping, hands the store exactly
\* one removal under the entry's sanitized key, and clears the active entry
\* exactly when it has the deleted name; a delete with nothing selected or
\* not confirmed changes nothing.
LocalDelete ==
    [][\A c \in Clients, k \in 0..Len(AllKeys), b \in BOOLEAN :
          /\ lastOp'.op = "delete" /\ lastOp'.client = c
          /\ DeleteStep(c, k, b)
          => IF k = 0 \/ ~b
             THEN UNCHANGED <<entries, currentEntry, alias, selector, remote, outbox,
                              putCalls>>
             ELSE LET n == selector[c][k] IN
                  /\ ~HasName(entries'[c], n)
                  /\ outbox'[c] = Append(outbox[c], [key |-> KeyOf(n), value |-> Null])
                  /\ IF currentEntry[c] # Null /\ currentEntry[c].name = n
                     THEN currentEntry'[c] = Null
                     ELSE currentEntry'[c] = currentEntry[c]]_vars

\* C25: createdAt is immutable.  While an entry of a name exists, no step
\* (cell cycle, clear-all, import, notification) changes the createdAt the
\* store holds under that name or the createdAt of a client's active entry
\* of that name.
CreatedAtImmutable ==
    [][/\ \A k \in Keys :
             remote[k] # Null /\ remote'[k] # Null /\ remote'[k].name = remote[k].name
                => remote'[k].createdAt = remote[k].createdAt
       /\ \A c \in Clients :
             /\ currentEntry[c] # Null /\ currentEntry'[c] # Null
             /\ currentEntry'[c].name = currentEntry[c].name
             => currentEntry'[c].createdAt = currentEntry[c].createdAt]_vars

\* C26: whole-entry push.  Every accepted local mutation of an entry
\* (create, cell cycle, clear-all, confirmed import) issues exactly one put;
\* its key is the sanitized name of the entry and its value is the client's
\* copy of the entry at that moment, with all size * size cells.
WholeEntryPush ==
    [][\A c \in Clients :
          /\ lastOp'.ok /\ lastOp'.client = c
          /\ lastOp'.op \in {"create", "click", "clear", "import"}
          => /\ putCalls'[c] = putCalls[c] + 1
             /\ Len(outbox'[c]) = Len(outbox[c]) + 1
             /\ SubSeq(outbox'[c], 1, Len(outbox[c])) = outbox[c]
             /\ LET w == outbox'[c][Len(outbox'[c])] IN
                /\ w.key = KeyOf(currentEntry'[c].name)
                /\ w.value = currentEntry'[c]
                /\ Len(w.value.measurements) = w.value.size * w.value.size]_vars

\* C27: guard discipline.  Processing a notification sets isUpdating and
\* clears it before the listener returns: the guard is false whenever a
\* user's handler starts, and no cell cycle of a user is dropped because
\* of the guard.
GuardDiscipline ==
    [][/\ \A c \in Clients : ~isUpdating'[c]
       /\ ~(lastOp'.op \in {"click", "coords"} /\ ~lastOp'.ok
              /\ lastOp'.why = "updating")]_vars

\* 10 to the power n
RECURSIVE PowerOfTen(_)
PowerOfTen(n) == IF n = 0 THEN 1 ELSE 10 * PowerOfTen(n - 1)

\* The number a text field holds when it is read as a decimal numeral: an
\* optional sign, digits, and an optional exponent e with digits; nan for
\* any other text.
NumberOf(text) ==
    LET negative == text # <<>> /\ Head(text) = "-"
        body == IF negative THEN Tail(text) ELSE text
        digits == DigitPrefix(body)
        rest == SubSeq(body, Len(digits) + 1, Len(body))
        exponent == IF rest = <<>> THEN <<"0">> ELSE Tail(rest)
        numeral == /\ digits # <<>>
                   /\ rest # <<>> => Head(rest) = "e"
                   /\ exponent # <<>> /\ DigitPrefix(exponent) = exponent
        magnitude == DigitsValue(digits, 0) * PowerOfTen(DigitsValue(exponent, 0)) IN
    IF numeral
    THEN [nan |-> FALSE, value |-> IF negative THEN 0 - magnitude ELSE magnitude]
    ELSE [nan |-> TRUE, value |-> 0]

\* A step is a cycle by these coordinates of this client, in either script.
CoordStep(c, bottom, top) ==
    \/ Firebase /\ cycleDeviceByCoords(c, bottom, top)
    \/ Gun /\ cycleDeviceByCoordsGun(c, bottom, top)

\* C28: invalid coordinates change nothing.  Cycling by (bottom, top) where
\* either is no number or lies outside [0, size), or while no entry is
\* active, mutates nothing and issues no put; for valid coordinates the
\* cell cycled is exactly the one at index bottom * size + top.
CoordsGuarded ==
    [][\A c \in Clients, bottom \in CoordInputs, top \in CoordInputs :
          /\ lastOp'.op = "coords" /\ lastOp'.client = c
          /\ CoordStep(c, bottom, top)
          => LET cur == currentEntry[c]
                 b == NumberOf(bottom)
                 t == NumberOf(top)
                 valid == /\ cur # Null
                          /\ ~b.nan /\ b.value \in 0..(cur.size - 1)
                          /\ ~t.nan /\ t.value \in 0..(cur.size - 1) IN
             IF valid
             THEN LET index == b.value * cur.size + t.value IN
                  /\ lastOp'.ok /\ lastOp'.index = index
                  /\ currentEntry'[c].measurements =
                        ArraySet(cur.measurements, index,
                                 NextState(ArrayGet(cur.measurements, index)))
             ELSE /\ ~lastOp'.ok
                  /\ UNCHANGED <<entries, currentEntry, alias, remote, outbox,
                                 putCalls, cellCycles>>]_vars

\* C29: the exported grid is the row-major reshaping of raw.  In the document
\* an export writes, raw is the cell sequence of the active entry unchanged,
\* grid has size rows of size values each, and grid[r][c] = raw[r * size + c]
\* for every row r and column c (counted from 0).
ExportReshapes ==
    [][\A c \in Clients :
          /\ lastOp'.op = "export" /\ lastOp'.ok /\ lastOp'.client = c
          => LET entry == currentEntry[c]
                 size == entry.size
                 file == downloads'[c][Len(downloads'[c])]
                 raw == file.measurements.raw
                 grid == file.measurements.grid IN
             /\ Len(downloads'[c]) = Len(downloads[c]) + 1
             /\ raw = entry.measurements
             /\ Len(grid) = size
             /\ \A r \in 1..size :
                   /\ Len(grid[r]) = size
                   /\ \A k \in 1..size :
                         /\ (r - 1) * size + k <= Len(raw)
                         /\ grid[r][k] = raw[(r - 1) * size + k]]_vars

\* C30: export is pure.  An export changes neither the active entry, the
\* client's entries nor the store and issues no put; with no active entry
\* it does nothing at all: no file is written either.
ExportPure ==
    [][\A c \in Clients :
          lastOp'.op = "export" /\ lastOp'.client = c
          => /\ UNCHANGED <<entries, currentEntry, alias, gridCells, selector, remote,
                            outbox, inbox, putCalls, storage>>
             /\ currentEntry[c] = Null => ~lastOp'.ok /\ UNCHANGED downloads
             /\ currentEntry[c] # Null
                   => /\ lastOp'.ok
                      /\ Len(downloads'[c]) = Len(downloads[c]) + 1]_vars

\* C30 happens: a client with an active entry exported it, and a client
\* with no active entry pressed export next.
ExportPureWitness ==
    /\ lastOp.op = "export" /\ ~lastOp.ok
    /\ currentEntry[lastOp.client] = Null
    /\ \E c \in Clients : currentEntry[c] # Null /\ downloads[c] # <<>>

\* The character is allowed in a key of the deployment's store: none of
\* the five the hosted store forbids; in the gossip script a letter, a
\* digit, the dash or the underscore (those among the characters typed).
AllowedInKey(ch) ==
    IF Firebase THEN ch \notin {".", "#", "$", "[", "]"}
    ELSE ch \in {"a", "w", "Z", "9", "-", "_"}

\* The puts in flight (a removal carries no entry).
PutsInFlight ==
    UNION {{outbox[c][k] : k \in {j \in 1..Len(outbox[c]) : outbox[c][j].value # Null}} :
              c \in Clients}

\* C31: sanitized keys are legal and stable.  The key of every put has the
\* length of the entry's name and holds allowed characters only; every
\* disallowed character of the name is replaced by '_' and every allowed
\* one is kept; sanitizing the key again returns the key.
SanitizedKeys ==
    \A w \in PutsInFlight :
        LET name == w.value.name
            key == w.key IN
        /\ Len(key) = Len(name)
        /\ \A k \in 1..Len(name) :
              /\ AllowedInKey(key[k])
              /\ AllowedInKey(name[k]) => key[k] = name[k]
              /\ ~AllowedInKey(name[k]) => key[k] = "_"
        /\ KeyOf(key) = key

\* C31 happens: in either deployment a put is in flight for a name of two
\* characters that are both disallowed.
SanitizedKeysWitness ==
    \E w \in PutsInFlight :
        /\ Len(w.value.name) = 2
        /\ \A k \in 1..2 : ~AllowedInKey(w.value.name[k])
        /\ w.key = <<"_", "_">>

\* C32: supported sizes only.  Every entry in the store and in every
\* client's entries has one of the sizes the arraySize selector offers,
\* after any sequence of creates, imports and notifications.
SupportedSizes ==
    \A e \in Stored \cup UNION {Held(c) : c \in Clients} : e.size \in ArraySizes

\* C33: creating or importing an entry never destroys an entry of another
\* name.  When the store applies the put of an entry, every entry it held
\* under another name is still there afterwards with the same content, also
\* when the two names have the same key.
OtherNamesKept ==
    [][\A c \in Clients :
          /\ outbox[c] # <<>> /\ Head(outbox[c]).value # Null
          /\ StoreApply(c)
          => \A e \in Stored :
                e.name # Head(outbox[c]).value.name => e \in Stored']_vars

\* C34: no resurrection.  When an entry was deleted from the store and the
\* deletion has reached a client that has the entry active (no put is in
\* flight and no notification is pending), a cell cycle or a clear-all of
\* that client issues no put: the entry is not written back to the store.
NoResurrection ==
    [][\A c \in Clients :
          /\ lastOp'.op \in {"click", "clear"} /\ lastOp'.ok /\ lastOp'.client = c
          /\ currentEntry[c] # Null
          /\ Quiescent
          /\ remote[KeyOf(currentEntry[c].name)] = Null
          => outbox'[c] = outbox[c]]_vars

\* C35: the active entry is a live entry.  Whenever a client has an active
\* entry and no notification is pending for it, the client's entries holds
\* an entry of the active entry's name.
ActiveEntryLive ==
    \A c \in Clients :
        currentEntry[c] # Null /\ inbox[c] = <<>>
           => HasName(entries[c], currentEntry[c].name)

\* The cells after cell index of m was cycled.
CycledCellsOf(m, index) == ArraySet(m, index, NextState(ArrayGet(m, index)))

\* C36: sequential edits are not lost.  When the put of another client's
\* cell cycle was the store's last write and has been delivered to a
\* client that has the entry active, the put of that client's next cell
\* cycle holds the other client's change together with its own; and once
\* every put and notification is delivered, every client that has an entry
\* of the store active sees the store's cells.
SequentialEditsKept ==
    /\ [][\A a \in Clients, b \in Clients :
             /\ lastOp'.op = "click" /\ lastOp'.ok /\ lastOp'.client = a
             /\ a # b /\ lastWriter = b /\ Quiescent
             /\ currentEntry[a] # Null
             /\ edit[b].index >= 0 /\ edit[b].name = currentEntry[a].name
             => /\ Len(outbox'[a]) = 1
                /\ outbox'[a][1].value.measurements =
                      CycledCellsOf(CycledCellsOf(edit[b].before, edit[b].index),
                                    lastOp'.index)]_vars
    /\ [](Quiescent =>
            \A c \in Clients :
                /\ currentEntry[c] # Null
                /\ remote[KeyOf(currentEntry[c].name)] # Null
                /\ remote[KeyOf(currentEntry[c].name)].name = currentEntry[c].name
                => currentEntry[c].measurements
                      = remote[KeyOf(currentEntry[c].name)].measurements)

\* C36 happens: one client cycled a cell, the other received that and
\* cycled another cell of the same entry; every put and notification is
\* delivered and both clients see both changes.
SequentialEditsWitness ==
    /\ Quiescent
    /\ \E a \in Clients, b \in Clients :
          /\ a # b /\ lastWriter = a
          /\ edit[a].index >= 0 /\ edit[b].index >= 0
          /\ edit[a].index # edit[b].index
          /\ edit[a].name = edit[b].name
          /\ edit[a].before = CycledCellsOf(edit[b].before, edit[b].index)
          /\ \A c \in Clients :
                /\ currentEntry[c] # Null
                /\ currentEntry[c].name = edit[a].name
                /\ currentEntry[c].measurements =
                      CycledCellsOf(edit[a].before, edit[a].index)

\* C37: keyboard selection stays inside the grid.  Whenever an entry is
\* active the selected cell is none or an index in [0, size * size); an
\* arrow key moves the selection by one row or one column at most, never
\* across the edge of a row or a column, and changes no cell; the space bar
\* cycles exactly the selected cell.
SelectionStaysInGrid ==
    /\ [](\A c \in Clients :
            currentEntry[c] # Null /\ selectedCellIndex[c] # NoCell
               => selectedCellIndex[c]
                     \in 0..(currentEntry[c].size * currentEntry[c].size - 1))
    /\ [][\A c \in Clients :
             lastOp'.op = "key" /\ lastOp'.ok /\ lastOp'.client = c
             => LET size == currentEntry[c].size
                    old == selectedCellIndex[c]
                    new == selectedCellIndex'[c] IN
                /\ UNCHANGED <<entries, currentEntry, remote, outbox, putCalls>>
                /\ new # old =>
                      \/ /\ new % size = old % size
                         /\ new \div size \in {(old \div size) - 1, (old \div size) + 1}
                      \/ /\ new \div size = old \div size
                         /\ new % size \in {(old % size) - 1, (old % size) + 1}]_vars
    /\ [][\A c \in Clients :
             lastOp'.op = "space" /\ lastOp'.ok /\ lastOp'.client = c
             => /\ selectedCellIndex'[c] = selectedCellIndex[c]
                /\ currentEntry'[c].measurements =
                      CycledCellsOf(currentEntry[c].measurements, selectedCellIndex[c])]_vars

====
